---------------------------- MODULE Spec2Model ----------------------------
(***************************************************************************)
(* A model of the git server's storage engine: the repository registry of  *)
(* both backends (local directory tree, S3 bucket), the S3 storer's        *)
(* objects and references, and the entry points that turn a client's       *)
(* repository name into a storage location.                                *)
(*                                                                         *)
(* A Go string is a sequence of one-character strings, so that the prefix, *)
(* suffix and trim operations of the code are computed, not assumed.       *)
(***************************************************************************)
EXTENDS Naturals, Sequences, FiniteSets, TLC

VARIABLES
    input,     \* pure-function harness: the argument drawn for the call
    output,    \* pure-function harness: what the function returned
    pc,        \* pure-function harness: "ready" before the call, "done" after
    bucket,    \* the S3 bucket: key -> [body, meta]
    fs,        \* the local base directory: path -> "dir" or "file"
    last,      \* the last completed call of a sequential caller
    sess,      \* the concurrent sessions, each inside one storer call
    storageType \* config.Storage.Type: "local" or "s3"

vars == <<input, output, pc, bucket, fs, last, sess, storageType>>

(***************************************************************************)
(* Bounds of the model.                                                    *)
(***************************************************************************)
MaxLen == 5

(***************************************************************************)
(* Go's strings package, on sequences of characters.                       *)
(***************************************************************************)
HasPrefix(s, p) == Len(s) >= Len(p) /\ SubSeq(s, 1, Len(p)) = p

HasSuffix(s, p) == Len(s) >= Len(p) /\ SubSeq(s, Len(s) - Len(p) + 1, Len(s)) = p

TrimPrefix(s, p) == IF HasPrefix(s, p) THEN SubSeq(s, Len(p) + 1, Len(s)) ELSE s

TrimSuffix(s, p) == IF HasSuffix(s, p) THEN SubSeq(s, 1, Len(s) - Len(p)) ELSE s

RECURSIVE TrimLeft(_, _)
TrimLeft(s, cutset) ==
    IF s /= <<>> /\ s[1] \in cutset THEN TrimLeft(Tail(s), cutset) ELSE s

RECURSIVE TrimRight(_, _)
TrimRight(s, cutset) ==
    IF s /= <<>> /\ s[Len(s)] \in cutset
    THEN TrimRight(SubSeq(s, 1, Len(s) - 1), cutset)
    ELSE s

\* strings.Trim(s, cutset)
Trim(s, cutset) == TrimRight(TrimLeft(s, cutset), cutset)

\* strings.TrimSpace(s); the space is the only white space of the alphabet
TrimSpace(s) == Trim(s, {" ", "\n", "\t", "\r"})

\* strings.Index(s, c) for a one-character c: 0 when absent (Go: -1)
RECURSIVE IndexFrom(_, _, _)
IndexFrom(s, c, i) ==
    IF i > Len(s) THEN 0 ELSE IF s[i] = c THEN i ELSE IndexFrom(s, c, i + 1)

Index(s, c) == IndexFrom(s, c, 1)

\* strings.Split(s, "/")
RECURSIVE Split(_, _)
Split(s, c) ==
    LET i == Index(s, c)
    IN  IF i = 0 THEN <<s>>
        ELSE <<SubSeq(s, 1, i - 1)>> \o Split(SubSeq(s, i + 1, Len(s)), c)

\* strings.Join(elems, "/")
RECURSIVE JoinWith(_, _)
JoinWith(elems, c) ==
    IF elems = <<>> THEN <<>>
    ELSE IF Len(elems) = 1 THEN elems[1]
    ELSE elems[1] \o <<c>> \o JoinWith(Tail(elems), c)

(***************************************************************************)
(* Literals of the code.                                                   *)
(***************************************************************************)
DotGit == <<".", "g", "i", "t">>

(***************************************************************************)
(* pkg/common: NormalizeRepoPath.                                          *)
(***************************************************************************)
NormalizeRepoPath(repoPath) ==
    LET trimmed == TrimSpace(repoPath)
    IN  IF ~HasSuffix(trimmed, DotGit) THEN trimmed \o DotGit ELSE trimmed

(***************************************************************************)
(* The pure-function harness: the argument is any string over the          *)
(* alphabet, up to MaxLen characters.                                      *)
(***************************************************************************)
Alphabet == {"/", " ", "d", ".", "g", "i", "t"}

Strings(n) == UNION {[1..k -> Alphabet] : k \in 0..n}

InitNormalize ==
    /\ input \in Strings(MaxLen)
    /\ output = <<>>
    /\ pc = "ready"
    /\ bucket = <<>>
    /\ fs = <<>>
    /\ storageType = "s3"
    /\ last = <<>>
    /\ sess = <<>>

CallNormalize ==
    /\ pc = "ready"
    /\ output' = NormalizeRepoPath(input)
    /\ pc' = "done"
    /\ UNCHANGED <<input, bucket, fs, last, sess, storageType>>

NextNormalize == CallNormalize

SpecNormalize == InitNormalize /\ [][NextNormalize]_vars

(***************************************************************************)
(* C8.  NormalizeRepoPath returns its input without surrounding white      *)
(* space and without leading and trailing slashes, with ".git" appended    *)
(* unless already there, and is idempotent.                                *)
(***************************************************************************)
ExpectedNormalized(s) ==
    LET t == Trim(TrimSpace(s), {"/"})
    IN  IF HasSuffix(t, DotGit) THEN t ELSE t \o DotGit

C8_NormalizeAsTested ==
    pc = "done" =>
        /\ output = ExpectedNormalized(input)
        /\ NormalizeRepoPath(output) = output

(***************************************************************************)
(* Go's path package: path.Clean and path.Join (filepath.Clean and         *)
(* filepath.Join are the same on the server's platform).                   *)
(***************************************************************************)
DotDot == <<".", ".">>

\* the elements kept by Clean, in order: empty and "." elements dropped, ".."
\* removing the element before it, or dropped at the root, or kept
RECURSIVE CleanElems(_, _, _)
CleanElems(elems, kept, rooted) ==
    IF elems = <<>> THEN kept
    ELSE LET e == Head(elems)
             rest == Tail(elems)
         IN  IF e = <<>> \/ e = <<".">> THEN CleanElems(rest, kept, rooted)
             ELSE IF e = DotDot
             THEN IF kept /= <<>> /\ kept[Len(kept)] /= DotDot
                  THEN CleanElems(rest, SubSeq(kept, 1, Len(kept) - 1), rooted)
                  ELSE IF rooted THEN CleanElems(rest, kept, rooted)
                  ELSE CleanElems(rest, Append(kept, e), rooted)
             ELSE CleanElems(rest, Append(kept, e), rooted)

Clean(p) ==
    IF p = <<>> THEN <<".">>
    ELSE LET rooted == p[1] = "/"
             body == JoinWith(CleanElems(Split(p, "/"), <<>>, rooted), "/")
         IN  IF rooted THEN <<"/">> \o body
             ELSE IF body = <<>> THEN <<".">> ELSE body

\* path.Join(a, b): empty elements are ignored, the rest joined and cleaned
PathJoin(a, b) ==
    IF a = <<>> /\ b = <<>> THEN <<>>
    ELSE Clean(IF a = <<>> THEN b ELSE IF b = <<>> THEN a ELSE a \o <<"/">> \o b)

(***************************************************************************)
(* The S3 bucket: a flat map from keys to objects.  A request may fail     *)
(* (network, permissions); a failed request changes nothing.               *)
(***************************************************************************)
NoMeta == ""

S3Has(b, key) == key \in DOMAIN b

\* mutant: the body is stored without the git-type metadata
S3PutWithoutMetadata(b, key, body, meta) ==
    [k \in DOMAIN b \cup {key} |-> IF k = key THEN [body |-> body, meta |-> NoMeta] ELSE b[k]]

S3Put(b, key, body, meta) ==
    [k \in DOMAIN b \cup {key} |->
        IF k = key THEN [body |-> body, meta |-> meta] ELSE b[k]]

S3Delete(b, key) == [k \in DOMAIN b \ {key} |-> b[k]]

EmptyBucket == [k \in {} |-> [body |-> <<>>, meta |-> NoMeta]]

(***************************************************************************)
(* go-git's plumbing.Hash.  A hash is a number, ZeroHash is 0, and its     *)
(* String() is HashHexLen lower-case hex digits (40 in go-git).            *)
(***************************************************************************)
HashHexLen == 4

ZeroHash == 0

HexDigits == <<"0", "1", "2", "3", "4", "5", "6", "7",
               "8", "9", "a", "b", "c", "d", "e", "f">>

IsHex(c) == \E i \in 1..16 : HexDigits[i] = c

HexVal(c) == (CHOOSE i \in 1..16 : HexDigits[i] = c) - 1

RECURSIVE ToHex(_, _)
ToHex(n, width) ==
    IF width = 0 THEN <<>>
    ELSE Append(ToHex(n \div 16, width - 1), HexDigits[(n % 16) + 1])

\* Hash.String()
HashString(h) == ToHex(h, HashHexLen)

\* hex.DecodeString keeps the pairs decoded before the first bad character
RECURSIVE HexPairs(_)
HexPairs(s) ==
    IF Len(s) >= 2 /\ IsHex(s[1]) /\ IsHex(s[2])
    THEN <<s[1], s[2]>> \o HexPairs(SubSeq(s, 3, Len(s)))
    ELSE <<>>

RECURSIVE FromHex(_)
FromHex(s) == IF s = <<>> THEN 0 ELSE FromHex(SubSeq(s, 1, Len(s) - 1)) * 16 + HexVal(s[Len(s)])

\* plumbing.NewHash(s): the decoded bytes copied into a zeroed hash
NewHash(s) ==
    LET decoded == HexPairs(s)
        padded == decoded \o [i \in 1..HashHexLen |-> "0"]
    IN  FromHex(SubSeq(padded, 1, HashHexLen))

(***************************************************************************)
(* go-git's plumbing.Reference and ReferenceName.                          *)
(***************************************************************************)
HEAD == <<"H", "E", "A", "D">>

RefsPrefix == <<"r", "e", "f", "s", "/">>

RefsHeads == <<"r", "e", "f", "s", "/", "h", "e", "a", "d", "s", "/">>

RefsTags == <<"r", "e", "f", "s", "/", "t", "a", "g", "s", "/">>

RefsRemotes == <<"r", "e", "f", "s", "/", "r", "e", "m", "o", "t", "e", "s", "/">>

RefsHeadsMain == <<"r", "e", "f", "s", "/", "h", "e", "a", "d", "s", "/", "m", "a", "i", "n">>

RefsHeadsDev == <<"r", "e", "f", "s", "/", "h", "e", "a", "d", "s", "/", "d", "e", "v">>

SymPrefix == <<"r", "e", "f", ":", " ">>

IsRemote(name) == HasPrefix(name, RefsRemotes)

IsBranch(name) == HasPrefix(name, RefsHeads)

IsTag(name) == HasPrefix(name, RefsTags)

\* ReferenceName.Short()
Short(name) ==
    IF IsBranch(name) THEN TrimPrefix(name, RefsHeads)
    ELSE IF IsTag(name) THEN TrimPrefix(name, RefsTags)
    ELSE IF IsRemote(name) THEN TrimPrefix(name, RefsRemotes)
    ELSE TrimPrefix(name, RefsPrefix)

NewHashReference(name, h) ==
    [name |-> name, type |-> "hash", hash |-> h, target |-> <<>>]

NewSymbolicReference(name, target) ==
    [name |-> name, type |-> "symbolic", hash |-> ZeroHash, target |-> target]

\* a nil *plumbing.Reference
NilRef == [name |-> <<>>, type |-> "nil", hash |-> ZeroHash, target |-> <<>>]

(***************************************************************************)
(* Git objects.  The hasher (SHA-1 over the type-tagged payload) is an     *)
(* injective numbering of (type, payload): no two objects collide, and no  *)
(* object hashes to ZeroHash.                                              *)
(***************************************************************************)
MaxPayload == 1

StoredTypes == <<"commit", "tree", "blob", "tag">>

DeltaTypes == {"ofs-delta", "ref-delta"}

PayloadChars == <<"x", "y", "R", "T", "C">>

CharIndex(c) == CHOOSE i \in 1..Len(PayloadChars) : PayloadChars[i] = c

TypeIndex(t) == CHOOSE i \in 1..Len(StoredTypes) : StoredTypes[i] = t

RECURSIVE PayloadIndex(_)
PayloadIndex(p) ==
    IF p = <<>> THEN 0
    ELSE PayloadIndex(SubSeq(p, 1, Len(p) - 1)) * Len(PayloadChars) + CharIndex(p[Len(p)])

\* plumbing.NewHasher(t, len).Write(content).Sum()
ComputeHash(t, content) == TypeIndex(t) + Len(StoredTypes) * PayloadIndex(content)

\* a plumbing.MemoryObject
MemoryObject(t, content) == [type |-> t, size |-> Len(content), content |-> content]

(***************************************************************************)
(* S3Storer: the repository's keys and its reference methods.  repoPath is *)
(* the storer's key prefix, "repositories/<name>.git".                     *)
(***************************************************************************)
getObjectKey(repoPath, objectPath) == PathJoin(repoPath, objectPath)

ObjectsDir == <<"o", "b", "j", "e", "c", "t", "s", "/">>

\* "objects/%s/%s" of hash.String()[:2] and hash.String()[2:]
ObjectKey(repoPath, h) ==
    getObjectKey(repoPath,
        ObjectsDir \o SubSeq(HashString(h), 1, 2) \o <<"/">>
                   \o SubSeq(HashString(h), 3, HashHexLen))

\* the key SetReference and RemoveReference use for a reference name
RefWriteKey(repoPath, name) ==
    getObjectKey(repoPath,
        IF IsRemote(name) THEN RefsRemotes \o Short(name)
        ELSE IF IsBranch(name) THEN RefsHeads \o Short(name)
        ELSE IF IsTag(name) THEN RefsTags \o Short(name)
        ELSE name)

\* the key Reference uses: a leading slash of other names is dropped
RefReadKey(repoPath, name) ==
    getObjectKey(repoPath,
        IF IsRemote(name) THEN RefsRemotes \o Short(name)
        ELSE IF IsBranch(name) THEN RefsHeads \o Short(name)
        ELSE IF IsTag(name) THEN RefsTags \o Short(name)
        ELSE TrimPrefix(name, <<"/">>))

\* the reference names and hashes a storer of the model is asked about
RefsTagsV == RefsTags \o <<"v">>

RefsRemotesOriginMain == RefsRemotes \o <<"o", "/", "m">>

RefsNotesN == RefsPrefix \o <<"n", "o", "t", "e", "s", "/", "n">>

\* a name that climbs out of the directory it is joined to
EscapingName == <<".", ".", "/", "o", ".", "g", "i", "t", "/">> \o HEAD

KnownRefNames ==
    {<<>>, HEAD, RefsHeadsMain, RefsHeadsDev, RefsTagsV, RefsRemotesOriginMain,
     RefsNotesN, EscapingName}

RECURSIVE Pow(_, _)
Pow(base, n) == IF n = 0 THEN 1 ELSE base * Pow(base, n - 1)

\* the largest hash the hasher gives a payload of at most MaxPayload characters
MaxKnownHash == Len(StoredTypes) * Pow(Len(PayloadChars) + 1, MaxPayload)

KnownHashes == 0..MaxKnownHash

\* NewS3Storer: the storer of one repository, its keys tabulated
NewS3Storer(repoPath) ==
    [repoPath |-> repoPath,
     writeKey |-> [n \in KnownRefNames |-> RefWriteKey(repoPath, n)],
     readKey |-> [n \in KnownRefNames |-> RefReadKey(repoPath, n)],
     objectKey |-> [h \in KnownHashes |-> ObjectKey(repoPath, h)],
     configKey |-> getObjectKey(repoPath, <<"c", "o", "n", "f", "i", "g">>),
     shallowKey |-> getObjectKey(repoPath, <<"s", "h", "a", "l", "l", "o", "w">>),
     rootKey |-> getObjectKey(repoPath, <<>>),
     refsPrefix |-> getObjectKey(repoPath, RefsPrefix)]

\* the object body SetReference writes
RefContent(ref) ==
    IF ref.type = "hash" THEN HashString(ref.hash) ELSE SymPrefix \o ref.target

\* SetReference: one PutObject
SetReference(b, s, ref) ==
    S3Put(b, s.writeKey[ref.name], RefContent(ref), NoMeta)

\* RemoveReference: one DeleteObject
RemoveReference(b, s, name) == S3Delete(b, s.writeKey[name])

\* mutant: what is stored is always read as a hash
ReferenceAsHash(b, s, name, getFails) ==
    IF getFails \/ ~S3Has(b, s.readKey[name])
    THEN [err |-> "reference not found", ref |-> NilRef]
    ELSE [err |-> "nil",
          ref |-> NewHashReference(name, NewHash(TrimSpace(b[s.readKey[name]].body)))]

\* Reference: [err, ref]; any GetObject error reads as ErrReferenceNotFound
Reference(b, s, name, getFails) ==
    LET key == s.readKey[name]
    IN  IF getFails \/ ~S3Has(b, key)
        THEN [err |-> "reference not found", ref |-> NilRef]
        ELSE LET contentStr == TrimSpace(b[key].body)
             IN  IF HasPrefix(contentStr, SymPrefix)
                 THEN [err |-> "nil",
                       ref |-> NewSymbolicReference(name, TrimPrefix(contentStr, SymPrefix))]
                 ELSE [err |-> "nil",
                       ref |-> NewHashReference(name, NewHash(contentStr))]

\* mutant: two direct references compare equal whatever their hashes
CasCompareIgnoringHash(old, current) ==
    IF old.type = "hash" /\ current.type = "hash"
    THEN "nil"
    ELSE IF old.type = "symbolic" /\ current.type = "symbolic"
    THEN IF old.target /= current.target THEN "reference has changed" ELSE "nil"
    ELSE "reference type mismatch"

\* the comparison of CheckAndSetReference: the error it returns, "nil" to go on
CasCompare(old, current) ==
    IF old.type = "hash" /\ current.type = "hash"
    THEN IF old.hash /= current.hash THEN "reference has changed" ELSE "nil"
    ELSE IF old.type = "symbolic" /\ current.type = "symbolic"
    THEN IF old.target /= current.target THEN "reference has changed" ELSE "nil"
    ELSE "reference type mismatch"

\* mutant: the check is made also when there is no old value to check against
CasCheckWithoutNilGuard(b, s, old, getFails) ==
    LET cur == Reference(b, s, old.name, getFails)
    IN  IF cur.err /= "nil" THEN cur.err ELSE CasCompare(old, cur.ref)

\* the check of CheckAndSetReference, before its write: the error, "nil" to go on
CasCheck(b, s, old, getFails) ==
    IF old.type /= "nil"
    THEN LET cur == Reference(b, s, old.name, getFails)
         IN  IF cur.err /= "nil" THEN cur.err ELSE CasCompare(old, cur.ref)
    ELSE "nil"

\* mutant: the new reference is written before the old one is checked
CheckAndSetReferenceWriteFirst(b, s, new, old, fault) ==
    LET checked == CasCheck(b, s, old, fault = "get")
        written == IF fault = "put" THEN b ELSE SetReference(b, s, new)
    IN  [err |-> IF checked /= "nil" THEN checked
                 ELSE IF fault = "put" THEN "put failed" ELSE "nil",
         bucket |-> written, writes |-> 1]

\* CheckAndSetReference: [err, bucket, writes], writes the write requests issued
CheckAndSetReference(b, s, new, old, fault) ==
    LET checked == CasCheck(b, s, old, fault = "get")
    IN  IF checked /= "nil"
        THEN [err |-> checked, bucket |-> b, writes |-> 0]
        ELSE IF fault = "put"
        THEN [err |-> "put failed", bucket |-> b, writes |-> 1]
        ELSE [err |-> "nil", bucket |-> SetReference(b, s, new), writes |-> 1]

(***************************************************************************)
(* S3Storer: the object methods.                                           *)
(***************************************************************************)
\* mutant: an object already held under its hash is not written again
SetEncodedObjectOnce(b, s, obj, putFails) ==
    IF obj.type \in DeltaTypes
    THEN [hash |-> ZeroHash, err |-> "invalid type", bucket |-> b, writes |-> 0]
    ELSE LET hash == ComputeHash(obj.type, obj.content)
         IN  IF S3Has(b, s.objectKey[hash])
             THEN [hash |-> hash, err |-> "nil", bucket |-> b, writes |-> 0]
             ELSE IF putFails
             THEN [hash |-> hash, err |-> "put failed", bucket |-> b, writes |-> 1]
             ELSE [hash |-> hash, err |-> "nil", writes |-> 1,
                   bucket |-> S3Put(b, s.objectKey[hash], obj.content, obj.type)]

\* SetEncodedObject: [hash, err, bucket, writes]
SetEncodedObject(b, s, obj, putFails) ==
    IF obj.type \in DeltaTypes
    THEN [hash |-> ZeroHash, err |-> "invalid type", bucket |-> b, writes |-> 0]
    ELSE LET hash == ComputeHash(obj.type, obj.content)
         IN  IF putFails
             THEN [hash |-> hash, err |-> "put failed", bucket |-> b, writes |-> 1]
             ELSE [hash |-> hash, err |-> "nil", writes |-> 1,
                   bucket |-> S3Put(b, s.objectKey[hash], obj.content, obj.type)]

\* mutant: the object's type is the reader's hint, the metadata is not read
EncodedObjectByHint(b, s, t, h, getFails) ==
    LET key == s.objectKey[h]
    IN  IF getFails \/ ~S3Has(b, key)
        THEN [err |-> "object not found", obj |-> MemoryObject("invalid", <<>>)]
        ELSE [err |-> "nil", obj |-> MemoryObject(t, b[key].body)]

\* mutant: a blob without the git-type of an object kind is not read
EncodedObjectTypedOnly(b, s, t, h, getFails) ==
    LET key == s.objectKey[h]
    IN  IF getFails \/ ~S3Has(b, key) \/ b[key].meta \notin {"commit", "tree", "blob", "tag"}
        THEN [err |-> "object not found", obj |-> MemoryObject("invalid", <<>>)]
        ELSE [err |-> "nil", obj |-> MemoryObject(b[key].meta, b[key].body)]

\* EncodedObject(t, hash): [err, obj]; any GetObject error reads as not found
EncodedObject(b, s, t, h, getFails) ==
    LET key == s.objectKey[h]
    IN  IF getFails \/ ~S3Has(b, key)
        THEN [err |-> "object not found", obj |-> MemoryObject("invalid", <<>>)]
        ELSE LET gitType == b[key].meta
                 objectType ==
                     IF gitType \in {"commit", "tree", "blob", "tag"} THEN gitType ELSE t
             IN  [err |-> "nil", obj |-> MemoryObject(objectType, b[key].body)]

\* mutant: the size is not read from the stored blob
EncodedObjectSizeZero(b, s, h, headFails) ==
    IF headFails \/ ~S3Has(b, s.objectKey[h]) THEN [err |-> "object not found", size |-> 0]
    ELSE [err |-> "nil", size |-> 0]

\* HasEncodedObject(hash): the error; any HeadObject error reads as not found
HasEncodedObject(b, s, h, headFails) ==
    IF headFails \/ ~S3Has(b, s.objectKey[h]) THEN "object not found" ELSE "nil"

\* EncodedObjectSize(hash): [err, size], the size the blob's ContentLength
EncodedObjectSize(b, s, h, headFails) ==
    IF headFails \/ ~S3Has(b, s.objectKey[h]) THEN [err |-> "object not found", size |-> 0]
    ELSE [err |-> "nil", size |-> Len(b[s.objectKey[h]].body)]

\* DeleteEncodedObject: one DeleteObject
DeleteEncodedObject(b, s, h) == S3Delete(b, s.objectKey[h])

(***************************************************************************)
(* The entry points: how each one turns the name a client spells into the  *)
(* repoPath it hands to the storage.                                       *)
(***************************************************************************)
\* strings.LastIndex(s, sub): 0 when absent (Go: -1)
LastIndex(s, sub) ==
    IF Len(sub) > Len(s) THEN 0
    ELSE LET hits == {i \in 1..(Len(s) - Len(sub) + 1) :
                         SubSeq(s, i, i + Len(sub) - 1) = sub}
         IN  IF hits = {} THEN 0 ELSE CHOOSE i \in hits : \A j \in hits : j <= i

\* common.ExtractRepoPathFromURL: <<>> when there is no repository in the URL
ExtractRepoPathFromURL(urlPath, suffix) ==
    LET idx == LastIndex(urlPath, suffix)
    IN  IF idx = 0 THEN <<>>
        ELSE TrimPrefix(TrimSuffix(SubSeq(urlPath, 1, idx - 1), <<"/">>), <<"/">>)

InfoRefsSuffix == <<"/", "i", "n", "f", "o", "/", "r", "e", "f", "s">>

UploadPack == <<"g", "i", "t", "-", "u", "p", "l", "o", "a", "d", "-", "p", "a", "c", "k">>

ReceivePack == <<"g", "i", "t", "-", "r", "e", "c", "e", "i", "v", "e", "-", "p", "a", "c", "k">>

\* RepoController.CreateRepo: the repoPath of a request {"name": name}
RestRepoPath(name) == NormalizeRepoPath(name)

\* GitController.InfoRefs on http://host/<name>/info/refs, then
\* GetTransportServer: <<>> is the 404 of a URL without a repository
HttpRepoPath(name) ==
    LET repoPath == ExtractRepoPathFromURL(<<"/">> \o name \o InfoRefsSuffix, InfoRefsSuffix)
    IN  IF repoPath = <<>> THEN <<>> ELSE NormalizeRepoPath(repoPath)

\* SSHConfig.parseGitCommand: <<service, repoArg>>, <<>> for no service
parseGitCommand(rawCommand) ==
    LET cmd == TrimSpace(rawCommand)
    IN  IF cmd = <<>> THEN <<<<>>, <<>>>>
        ELSE IF HasPrefix(cmd, UploadPack)
        THEN <<UploadPack, TrimSpace(TrimPrefix(cmd, UploadPack))>>
        ELSE IF HasPrefix(cmd, ReceivePack)
        THEN <<ReceivePack, TrimSpace(TrimPrefix(cmd, ReceivePack))>>
        ELSE <<<<>>, <<>>>>

\* SSHConfig.repoPathFromSSHArg
repoPathFromSSHArg(arg) ==
    LET unquoted == Trim(TrimSpace(arg), {"'", "\""})
        noColon == TrimPrefix(unquoted, <<":">>)
        i == Index(noColon, ":")
        noHost == IF i > 0 THEN SubSeq(noColon, i + 1, Len(noColon)) ELSE noColon
        rel == TrimPrefix(noHost, <<"/">>)
    IN  IF rel = <<>> THEN <<>> ELSE NormalizeRepoPath(rel)

\* handleSSHSession on the command git sends for ssh://host/<name>:
\* <service> '<name>'
SshRepoPath(service, name) ==
    LET parsed == parseGitCommand(service \o <<" ", "'">> \o name \o <<"'">>)
    IN  IF parsed[1] = <<>> \/ parsed[2] = <<>> THEN <<>>
        ELSE repoPathFromSSHArg(parsed[2])

(***************************************************************************)
(* The repository of the model is "demo"; clients spell it in three ways. *)
(***************************************************************************)
Demo == <<"d", "e", "m", "o">>

Spellings == {Demo, Demo \o DotGit, <<"/">> \o Demo \o <<"/">>}

Services == {UploadPack, ReceivePack}

\* the repoPath each entry point hands to the storage, per spelling
RestPath == [name \in Spellings |-> RestRepoPath(name)]

HttpPath == [name \in Spellings |-> HttpRepoPath(name)]

SshPath == [service \in Services |-> [name \in Spellings |-> SshRepoPath(service, name)]]

RepoPaths ==
    ({RestPath[n] : n \in Spellings} \cup {HttpPath[n] : n \in Spellings}
        \cup {SshPath[s][n] : s \in Services, n \in Spellings}) \ {<<>>}

\* the repoPaths the storage is asked about
\* a second repository
Other == <<"o">>

\* the names of a repository "x" and of one that climbs out of the place it
\* is resolved in
RootNames == {<<"x">>, <<".", ".", "/", "x">>}

\* the repoPaths the REST API and the SSH exec command make of them
RootPaths ==
    {RestRepoPath(name) : name \in RootNames}
        \cup {SshRepoPath(service, name) : service \in Services, name \in RootNames}

KnownRepoPaths == RepoPaths \cup {Demo, Other} \cup RootPaths

(***************************************************************************)
(* S3Storage: the registry of the remote backend.                          *)
(***************************************************************************)
RepositoriesPrefix == <<"r", "e", "p", "o", "s", "i", "t", "o", "r", "i", "e", "s", "/">>

getRepoKey(repoPath) ==
    LET cleanPath == Trim(repoPath, {"/"})
    IN  RepositoriesPrefix
            \o (IF ~HasSuffix(cleanPath, DotGit) THEN cleanPath \o DotGit ELSE cleanPath)

\* getRepoKey of the repoPaths the storage is asked about, computed once
RepoKeyOf == [p \in KnownRepoPaths |-> getRepoKey(p)]

\* RepositoryExists: HeadObject of <repoKey>/HEAD answered without error
S3RepositoryExists(b, repoPath) == S3Has(b, RepoKeyOf[repoPath] \o <<"/", "H", "E", "A", "D">>)

\* the bodies CreateRepository writes; the texts are shortened
ConfigContent == <<"b", "a", "r", "e">>

ReadmeContent == <<"R">>

TreeContent == <<"T">>

CommitContent == <<"C">>

ReadmeHash == ComputeHash("blob", ReadmeContent)

TreeHash == ComputeHash("tree", TreeContent)

CommitHash == ComputeHash("commit", CommitContent)

\* mutant: the two references are written before the objects
S3CreateWritesRefsFirst(repoKey) ==
        << [key |-> repoKey \o <<"/", "c", "o", "n", "f", "i", "g">>, body |-> ConfigContent, meta |-> NoMeta],
           [key |-> repoKey \o <<"/", "o", "b", "j", "e", "c", "t", "s", "/", ".", "g", "i", "t", "k", "e", "e", "p">>, body |-> <<>>, meta |-> NoMeta],
           [key |-> RefWriteKey(repoKey, RefsHeadsMain),
            body |-> RefContent(NewHashReference(RefsHeadsMain, CommitHash)), meta |-> NoMeta],
           [key |-> RefWriteKey(repoKey, HEAD),
            body |-> RefContent(NewSymbolicReference(HEAD, RefsHeadsMain)), meta |-> NoMeta],
           [key |-> ObjectKey(repoKey, ReadmeHash), body |-> ReadmeContent, meta |-> "blob"],
           [key |-> ObjectKey(repoKey, TreeHash), body |-> TreeContent, meta |-> "tree"],
           [key |-> ObjectKey(repoKey, CommitHash), body |-> CommitContent, meta |-> "commit"] >>

\* the PutObject requests of CreateRepository and createInitialCommit, in the
\* order the code issues them
S3CreateWrites(repoKey) ==
        << [key |-> repoKey \o <<"/", "c", "o", "n", "f", "i", "g">>, body |-> ConfigContent, meta |-> NoMeta],
           [key |-> repoKey \o <<"/", "o", "b", "j", "e", "c", "t", "s", "/", ".", "g", "i", "t", "k", "e", "e", "p">>, body |-> <<>>, meta |-> NoMeta],
           [key |-> ObjectKey(repoKey, ReadmeHash), body |-> ReadmeContent, meta |-> "blob"],
           [key |-> ObjectKey(repoKey, TreeHash), body |-> TreeContent, meta |-> "tree"],
           [key |-> ObjectKey(repoKey, CommitHash), body |-> CommitContent, meta |-> "commit"],
           [key |-> RefWriteKey(repoKey, RefsHeadsMain),
            body |-> RefContent(NewHashReference(RefsHeadsMain, CommitHash)), meta |-> NoMeta],
           [key |-> RefWriteKey(repoKey, HEAD),
            body |-> RefContent(NewSymbolicReference(HEAD, RefsHeadsMain)), meta |-> NoMeta] >>

\* the requests of the repoPaths the storage is asked about, computed once
S3CreateWritesOf == [p \in KnownRepoPaths |-> S3CreateWrites(RepoKeyOf[p])]

\* the first n requests, applied in order
RECURSIVE S3PutAll(_, _, _)
S3PutAll(b, writes, n) ==
    IF n = 0 THEN b
    ELSE S3Put(S3PutAll(b, writes, n - 1), writes[n].key, writes[n].body, writes[n].meta)

\* the requests answered before request failAt fails, all of them for 0
S3PutUntil(b, writes, failAt) ==
    S3PutAll(b, writes, IF failAt = 0 THEN Len(writes) ELSE failAt - 1)

\* mutant: the requests are issued before the existence check is answered
S3CreateRepositoryOverwriting(b, repoPath, failAt) ==
    [err |-> IF S3RepositoryExists(b, repoPath) THEN "repository already exists"
             ELSE IF failAt = 0 THEN "nil" ELSE "create failed",
     bucket |-> S3PutUntil(b, S3CreateWritesOf[repoPath], failAt)]

\* CreateRepository: [err, bucket].  failAt is the request that fails, 0 for
\* none; the code returns at the first error and undoes nothing
S3CreateRepository(b, repoPath, failAt) ==
    IF S3RepositoryExists(b, repoPath)
    THEN [err |-> "repository already exists", bucket |-> b]
    ELSE [err |-> IF failAt = 0 THEN "nil" ELSE "create failed",
          bucket |-> S3PutUntil(b, S3CreateWritesOf[repoPath], failAt)]

(***************************************************************************)
(* One storage handle on the repository "demo", used by one caller: every  *)
(* reference method runs to completion before the next starts.             *)
(***************************************************************************)
MaxHash == 2

DemoKey == RepoKeyOf[Demo]

\* GetStorer("demo")
DemoStorer == NewS3Storer(DemoKey)

\* the bucket after CreateRepository("demo") on an empty bucket
CreatedBucket == S3CreateRepository(EmptyBucket, Demo, 0).bucket

RefNames == {HEAD, RefsHeadsMain}

Hashes == {CommitHash} \cup 1..MaxHash

Targets == {RefsHeadsMain, RefsHeadsDev}

\* a branch is direct; HEAD is symbolic, or direct when detached
References ==
    {NewHashReference(n, h) : n \in RefNames, h \in Hashes}
        \cup {NewSymbolicReference(HEAD, t) : t \in Targets}

Faults == {"none", "get", "put"}

\* what a caller reads under a name when the store answers
Stored(b, name) == Reference(b, DemoStorer, name, FALSE).ref

NoCall ==
    [op |-> "none", new |-> NilRef, old |-> NilRef, fault |-> "none", err |-> "nil",
     writes |-> 0, curOld |-> NilRef, curNew |-> NilRef, staleOf |-> NilRef]

\* the call is the second of: a swap of R from A to B that succeeded, then a
\* swap of R that still expects A
IsStaleRetry(new, old) ==
    /\ last.op = "cas" /\ last.err = "nil"
    /\ last.old.type = "hash" /\ last.new.type = "hash"
    /\ last.old.name = last.new.name
    /\ last.curOld.type = "hash"
    /\ last.new.hash /= last.old.hash
    /\ old = last.old
    /\ new.name = old.name

InitRef ==
    /\ bucket = CreatedBucket
    /\ last = NoCall
    /\ input = <<>>
    /\ output = <<>>
    /\ pc = "ready"
    /\ fs = <<>>
    /\ storageType = "s3"
    /\ sess = <<>>

\* the requests of one CheckAndSetReference call that can fail: its GetObject
\* when it has an old value to check, its PutObject when the check passes
FaultsOf(b, old) ==
    {"none"} \cup (IF old.type /= "nil" THEN {"get"} ELSE {})
             \cup (IF CasCheck(b, DemoStorer, old, FALSE) = "nil" THEN {"put"} ELSE {})

RefCheckAndSet ==
    \E new \in References :
      \E old \in {o \in References : o.name = new.name} \cup {NilRef} :
        \E fault \in FaultsOf(bucket, old) :
          LET r == CheckAndSetReference(bucket, DemoStorer, new, old, fault)
              cur == Stored(bucket, new.name)
          IN  /\ bucket' = r.bucket
              /\ last' = [op |-> "cas", new |-> new, old |-> old, fault |-> fault,
                          err |-> r.err, writes |-> r.writes,
                          curOld |-> IF old.type = "nil" THEN NilRef ELSE cur,
                          curNew |-> cur,
                          staleOf |-> IF fault = "none" /\ IsStaleRetry(new, old)
                                      THEN last.new ELSE NilRef]
              /\ UNCHANGED <<input, output, pc, fs, sess, storageType>>

RefSet ==
    \E ref \in References :
        /\ bucket' = SetReference(bucket, DemoStorer, ref)
        /\ last' = [NoCall EXCEPT !.op = "set", !.new = ref, !.writes = 1]
        /\ UNCHANGED <<input, output, pc, fs, sess, storageType>>

RefRemove ==
    \E name \in RefNames :
        /\ bucket' = RemoveReference(bucket, DemoStorer, name)
        /\ last' = [NoCall EXCEPT !.op = "remove", !.writes = 1,
                                  !.curNew = Stored(bucket, name)]
        /\ UNCHANGED <<input, output, pc, fs, sess, storageType>>

NextRef == RefCheckAndSet \/ RefSet \/ RefRemove

SpecRef == InitRef /\ [][NextRef]_vars

(***************************************************************************)
(* C1.  With R holding the direct value A, CheckAndSetReference(R->B,      *)
(* old R->A) succeeds and R reads B; a following call that still expects   *)
(* the stale A fails and R still reads B.                                  *)
(***************************************************************************)
C1_SwapThenStaleFails ==
    (/\ last.op = "cas" /\ last.fault = "none"
     /\ last.old.type = "hash" /\ last.curOld.type = "hash"
     /\ last.new.name = last.old.name)
    => /\ last.curOld.hash = last.old.hash
            => (last.err = "nil" /\ Stored(bucket, last.new.name) = last.new)
       /\ last.staleOf.type /= "nil"
            => (/\ last.err /= "nil"
                /\ last.curOld = last.staleOf
                /\ Stored(bucket, last.old.name) = last.staleOf)

C1_Witness ==
    /\ last.op = "cas"
    /\ last.staleOf.type = "hash"
    /\ last.err = "reference has changed"
    /\ last.new.hash /= last.staleOf.hash

(***************************************************************************)
(* C3.  As claimed: CheckAndSetReference without an expected old value     *)
(* fails when the reference exists, and leaves it unchanged.               *)
(***************************************************************************)
C3_NoOldFailsIfPresent ==
    (last.op = "cas" /\ last.old.type = "nil" /\ last.curNew.type /= "nil")
    => (last.err /= "nil" /\ Stored(bucket, last.new.name) = last.curNew)

(***************************************************************************)
(* C3, amended.  CheckAndSetReference without an expected old value makes  *)
(* no check: it issues its write whether or not the reference exists, and  *)
(* succeeds unless that write fails; the reference then reads the new      *)
(* value.                                                                  *)
(***************************************************************************)
C3_NoOldWritesUnchecked ==
    (last.op = "cas" /\ last.old.type = "nil")
    => /\ last.writes = 1
       /\ last.fault /= "put"
            => (last.err = "nil" /\ Stored(bucket, last.new.name) = last.new)

C3_Witness ==
    /\ last.op = "cas" /\ last.old.type = "nil"
    /\ last.curNew.type /= "nil" /\ last.curNew /= last.new
    /\ last.err = "nil"

(***************************************************************************)
(* C4.  A CheckAndSetReference that fails its check (other hash, other     *)
(* target, direct against symbolic, expected reference missing) issues no  *)
(* write, and every key of the bucket holds what it held before.           *)
(***************************************************************************)
CheckErrors ==
    {"reference has changed", "reference type mismatch", "reference not found"}

C4_FailedCheckWritesNothing ==
    [][(last'.op = "cas" /\ last'.err \in CheckErrors)
            => (bucket' = bucket /\ last'.writes = 0)]_vars

C4_Witness ==
    /\ last.op = "cas"
    /\ last.err = "reference type mismatch"
    /\ last.curOld.type = "symbolic" /\ last.old.type = "hash"
    /\ Stored(bucket, last.new.name) /= last.new

(***************************************************************************)
(* Two sessions, each with its own storage handle on the repository "demo" *)
(* (GetStorer makes a new handle per request), both over the one bucket.   *)
(* A CheckAndSetReference call is two requests to the store, its GetObject *)
(* and then its PutObject; requests of the two sessions interleave.        *)
(***************************************************************************)
Sessions == {"s1", "s2"}

IdleCall ==
    [pc |-> "idle", new |-> NilRef, old |-> NilRef, err |-> "nil", atWrite |-> NilRef]

\* the branch both sessions update
ConcReferences == {NewHashReference(RefsHeadsMain, h) : h \in Hashes}

InitRefConc ==
    /\ bucket = CreatedBucket
    /\ sess = [s \in Sessions |-> IdleCall]
    /\ last = NoCall
    /\ input = <<>>
    /\ output = <<>>
    /\ pc = "ready"
    /\ fs = <<>>
    /\ storageType = "s3"

\* the call starts: `if old != nil`, Reference(old.Name()), the comparison
CasRead(s) ==
    /\ sess[s].pc = "idle"
    /\ \E new \in ConcReferences, old \in ConcReferences, getFails \in BOOLEAN :
         LET checked == CasCheck(bucket, DemoStorer, old, getFails)
         IN  sess' = [sess EXCEPT ![s] =
                        [pc |-> IF checked = "nil" THEN "write" ELSE "done",
                         new |-> new, old |-> old, err |-> checked,
                         atWrite |-> NilRef]]
    /\ UNCHANGED <<bucket, last, input, output, pc, fs, storageType>>

\* the call goes on: `return s.SetReference(new)`; atWrite records what the
\* reference held when the PutObject reached the store
CasWrite(s) ==
    /\ sess[s].pc = "write"
    /\ \E putFails \in BOOLEAN :
         /\ bucket' = IF putFails THEN bucket
                      ELSE SetReference(bucket, DemoStorer, sess[s].new)
         /\ sess' = [sess EXCEPT ![s].pc = "done",
                                 ![s].err = IF putFails THEN "put failed" ELSE "nil",
                                 ![s].atWrite = Stored(bucket, sess[s].new.name)]
    /\ UNCHANGED <<last, input, output, pc, fs, storageType>>

\* the caller takes the result; the session is free for its next call
CasReturn(s) ==
    /\ sess[s].pc = "done"
    /\ sess' = [sess EXCEPT ![s] = IdleCall]
    /\ UNCHANGED <<bucket, last, input, output, pc, fs, storageType>>

NextRefConc == \E s \in Sessions : CasRead(s) \/ CasWrite(s) \/ CasReturn(s)

SpecRefConc == InitRefConc /\ [][NextRefConc]_vars

(***************************************************************************)
(* C2.  Every CheckAndSetReference call that succeeds made its write when  *)
(* the stored value still equalled its expected old value; so two calls    *)
(* with the same old value and different new values do not both succeed.   *)
(***************************************************************************)
C2_WriteSawExpectedOld ==
    /\ \A s \in Sessions :
         (sess[s].pc = "done" /\ sess[s].err = "nil")
            => CasCompare(sess[s].old, sess[s].atWrite) = "nil"
    /\ \A s, t \in Sessions :
         (/\ s /= t
          /\ sess[s].pc = "done" /\ sess[t].pc = "done"
          /\ sess[s].old = sess[t].old /\ sess[s].new /= sess[t].new
          /\ sess[s].old /= sess[s].new /\ sess[t].old /= sess[t].new)
            => ~(sess[s].err = "nil" /\ sess[t].err = "nil")

(***************************************************************************)
(* One storage handle on the repository "demo", used by one caller for its *)
(* object methods.  The caller stores at most MaxObjects objects besides   *)
(* the three of the initial commit.                                        *)
(***************************************************************************)
MaxObjects == 1

\* payloads: the prefixes of "xyxy..." up to MaxPayload characters
ObjPayloads ==
    {[i \in 1..n |-> IF i % 2 = 1 THEN "x" ELSE "y"] : n \in 0..MaxPayload}

ObjTypes == {StoredTypes[i] : i \in 1..Len(StoredTypes)}

\* the type hints readers pass: plumbing.AnyObject, as the protocol engine
\* does, or a type
TypeHints == {"any", "blob"}

ObjHashes == {ComputeHash(t, p) : t \in ObjTypes, p \in ObjPayloads}

InitialHashes == {ReadmeHash, TreeHash, CommitHash}

\* what the handle holds under a hash: the object's bucket entry, or <<>>
Held(b, h) ==
    IF S3Has(b, DemoStorer.objectKey[h]) THEN <<b[DemoStorer.objectKey[h]]>> ELSE <<>>

StoredByCaller(b) == {h \in ObjHashes : Held(b, h) /= <<>>}

NoObjCall ==
    [op |-> "none", type |-> "invalid", content |-> <<>>, hint |-> "any", hash |-> ZeroHash,
     err |-> "nil", writes |-> 0, had |-> <<>>, again |-> FALSE, prevHash |-> ZeroHash,
     got |-> MemoryObject("invalid", <<>>)]

InitObj ==
    /\ bucket = CreatedBucket
    /\ last = NoObjCall
    /\ input = <<>>
    /\ output = <<>>
    /\ pc = "ready"
    /\ fs = <<>>
    /\ storageType = "s3"
    /\ sess = <<>>

\* SetEncodedObject(obj); again: the call before stored the same (type, payload)
ObjSet ==
    \E t \in ObjTypes \cup DeltaTypes, p \in ObjPayloads, putFails \in BOOLEAN :
        LET r == SetEncodedObject(bucket, DemoStorer, MemoryObject(t, p), putFails)
        IN  /\ Cardinality(StoredByCaller(r.bucket)) <= MaxObjects
            /\ bucket' = r.bucket
            /\ last' = [NoObjCall EXCEPT
                          !.op = "set", !.type = t, !.content = p, !.hash = r.hash,
                          !.err = r.err, !.writes = r.writes,
                          !.had = IF t \in ObjTypes THEN Held(bucket, r.hash) ELSE <<>>,
                          !.again = /\ last.op = "set" /\ last.err = "nil"
                                    /\ last.type = t /\ last.content = p,
                          !.prevHash = IF /\ last.op = "set" /\ last.err = "nil"
                                          /\ last.type = t /\ last.content = p
                                       THEN last.hash ELSE ZeroHash]
            /\ UNCHANGED <<input, output, pc, fs, sess, storageType>>

\* EncodedObject(hint, h)
ObjGet ==
    \E h \in ObjHashes \cup InitialHashes, hint \in TypeHints, getFails \in BOOLEAN :
        LET r == EncodedObject(bucket, DemoStorer, hint, h, getFails)
        IN  /\ last' = [NoObjCall EXCEPT
                          !.op = "get", !.hint = hint, !.hash = h, !.err = r.err,
                          !.had = Held(bucket, h), !.got = r.obj]
            /\ UNCHANGED <<bucket, input, output, pc, fs, sess, storageType>>

\* DeleteEncodedObject(h)
ObjDelete ==
    \E h \in ObjHashes :
        /\ bucket' = DeleteEncodedObject(bucket, DemoStorer, h)
        /\ last' = [NoObjCall EXCEPT !.op = "delete", !.hash = h, !.writes = 1,
                                     !.had = Held(bucket, h)]
        /\ UNCHANGED <<input, output, pc, fs, sess, storageType>>

NextObj == ObjSet \/ ObjGet \/ ObjDelete

SpecObj == InitObj /\ [][NextObj]_vars

(***************************************************************************)
(* C5.  SetEncodedObject(t, p) that succeeds returns a hash h under which  *)
(* EncodedObject then returns an object of type t with payload p and size  *)
(* Len(p), whatever type hint the reader passes; and so does every later   *)
(* read of an object the handle holds.                                     *)
(***************************************************************************)
C5_StoreThenRead ==
    /\ (last.op = "set" /\ last.err = "nil")
         => \A hint \in TypeHints \cup ObjTypes :
              LET r == EncodedObject(bucket, DemoStorer, hint, last.hash, FALSE)
              IN  /\ r.err = "nil"
                  /\ r.obj.type = last.type
                  /\ r.obj.content = last.content
                  /\ r.obj.size = Len(last.content)
    /\ (last.op = "get" /\ last.err = "nil")
         => \E t \in ObjTypes, p \in ObjPayloads \cup {ReadmeContent, TreeContent, CommitContent} :
              /\ last.hash = ComputeHash(t, p)
              /\ last.got = [type |-> t, size |-> Len(p), content |-> p]

C5_Witness ==
    /\ last.op = "get" /\ last.err = "nil"
    /\ last.hint = "blob" /\ last.got.type = "tag"
    /\ last.got.size > 0

(***************************************************************************)
(* C6.  As claimed: storing the same (type, payload) a second time returns *)
(* the same hash, issues no write and leaves the stored object unchanged.  *)
(***************************************************************************)
C6_SecondStoreNoWrite ==
    last.again
    => /\ last.hash = last.prevHash
       /\ last.writes = 0
       /\ Held(bucket, last.hash) = last.had

(***************************************************************************)
(* C6, amended.  Storing the same (type, payload) a second time returns    *)
(* the same hash and leaves the stored object unchanged, but it issues its *)
(* write again: one PutObject of the same key, body and type.              *)
(***************************************************************************)
C6_SecondStoreSameObject ==
    last.again
    => /\ last.hash = last.prevHash
       /\ last.writes = 1
       /\ last.had /= <<>>
       /\ Held(bucket, last.hash) = last.had

C6_Witness ==
    /\ last.again /\ last.err = "nil"
    /\ last.type = "tree" /\ last.content /= <<>>

(***************************************************************************)
(* LocalStorage: the registry of the local backend.  The file system is a  *)
(* map from paths to "dir" or "file".                                      *)
(***************************************************************************)
\* config.Storage.Local.Path
BasePath == <<"/", "b">>

getFullPath(repoPath) ==
    LET cleanPath == Clean(repoPath)
    IN  PathJoin(BasePath,
                 IF ~HasSuffix(cleanPath, DotGit) THEN cleanPath \o DotGit ELSE cleanPath)

\* getFullPath of the repoPaths the storage is asked about, computed once
FullPathOf == [p \in KnownRepoPaths |-> getFullPath(p)]

\* os.Stat(p) answers, and IsDir
FsIsDir(f, p) == p \in DOMAIN f /\ f[p] = "dir"

FsWrite(f, p, kind) == [k \in DOMAIN f \cup {p} |-> IF k = p THEN kind ELSE f[k]]

\* a path and everything below it
FsUnder(f, root) == {k \in DOMAIN f : k = root \/ HasPrefix(k, root \o <<"/">>)}

\* os.RemoveAll
RemoveAll(f, root) == [k \in DOMAIN f \ FsUnder(f, root) |-> f[k]]

\* filepath.Dir
Dir(p) ==
    LET i == LastIndex(p, <<"/">>)
    IN  IF i = 0 THEN <<".">> ELSE Clean(SubSeq(p, 1, i))

\* os.MkdirAll: [err, fs]; the path and its missing parents become directories
MkdirAll(f, p) ==
    LET chain == {SubSeq(p, 1, i) : i \in {j \in 1..Len(p) : j = Len(p) \/ p[j + 1] = "/"}}
    IN  IF \E d \in chain : d \in DOMAIN f /\ f[d] /= "dir"
        THEN [err |-> "not a directory", fs |-> f]
        ELSE [err |-> "nil",
              fs |-> [k \in DOMAIN f \cup chain |-> IF k \in chain THEN "dir" ELSE f[k]]]

\* the base directory after Configure
EmptyBase == [k \in {BasePath} |-> "dir"]

\* filepath.Dir(fullPath) of the repoPaths the storage is asked about
DirOf == [p \in KnownRepoPaths |-> Dir(FullPathOf[p])]

LocalRepositoryExists(f, repoPath) == FsIsDir(f, FullPathOf[repoPath])

HeadFile == <<"/">> \o HEAD

ConfigFile == <<"/", "c", "o", "n", "f", "i", "g">>

\* what git.PlainClone(fullPath, bare) leaves: the directory of a bare
\* repository with its HEAD, config, objects and refs
BareRepository(fullPath) ==
    [k \in {fullPath, fullPath \o HeadFile, fullPath \o ConfigFile,
            fullPath \o <<"/", "o", "b", "j", "e", "c", "t", "s">>, fullPath \o <<"/", "r", "e", "f", "s">>} |->
        IF k \in {fullPath \o HeadFile, fullPath \o ConfigFile} THEN "file" ELSE "dir"]

\* the steps of CreateRepository that can fail: MkdirAll of the parent, the
\* temporary repository with its commit, the bare clone
LocalCreateSteps == <<"mkdir", "temp", "clone">>

\* the steps of CreateRepository after its existence check, given what
\* MkdirAll of the parent returned and the repository the clone would leave
LocalCreateFrom(f, made, repo, failAt) ==
    IF failAt = 1 \/ made.err /= "nil"
    THEN [err |-> "create failed", fs |-> f]
    ELSE IF failAt /= 0
    THEN [err |-> "create failed", fs |-> made.fs]
    ELSE [err |-> "nil",
          fs |-> [k \in DOMAIN made.fs \cup DOMAIN repo |->
                    IF k \in DOMAIN repo THEN repo[k] ELSE made.fs[k]]]

\* CreateRepository: [err, fs].  The temporary repository is removed on
\* every return (defer); a failed clone removes the directory it made
LocalCreateRepository(f, repoPath, failAt) ==
    IF LocalRepositoryExists(f, repoPath)
    THEN [err |-> "repository already exists", fs |-> f]
    ELSE LocalCreateFrom(f, MkdirAll(f, DirOf[repoPath]),
                         BareRepository(FullPathOf[repoPath]), failAt)

\* DeleteRepository: [err, fs]
LocalDeleteRepository(f, repoPath, fails) ==
    IF ~LocalRepositoryExists(f, repoPath)
    THEN [err |-> "repository does not exist", fs |-> f]
    ELSE IF fails THEN [err |-> "delete failed", fs |-> f]
    ELSE [err |-> "nil", fs |-> RemoveAll(f, FullPathOf[repoPath])]

\* S3Storage.DeleteRepository: [err, bucket]; the keys under "<repoKey>/"
\* are listed and deleted in one batch
S3Under(b, repoKey) == {k \in DOMAIN b : HasPrefix(k, repoKey \o <<"/">>)}

S3DeleteRepository(b, repoPath, fails) ==
    IF ~S3RepositoryExists(b, repoPath)
    THEN [err |-> "repository does not exist", bucket |-> b]
    ELSE IF fails THEN [err |-> "delete failed", bucket |-> b]
    ELSE [err |-> "nil",
          bucket |-> [k \in DOMAIN b \ S3Under(b, RepoKeyOf[repoPath]) |-> b[k]]]

(***************************************************************************)
(* The registry behind the entry points, on the backend the configuration  *)
(* chose.  Clients spell the one repository "demo" in three ways.          *)
(***************************************************************************)
\* GetStorer(p) of the remote backend
StorerOf == [p \in RepoPaths |-> NewS3Storer(RepoKeyOf[p])]

StorageTypes == {"local", "s3"}

\* GitRepositoryStorage.RepositoryExists
StorageExists(ty, b, f, p) ==
    IF ty = "s3" THEN S3RepositoryExists(b, p) ELSE LocalRepositoryExists(f, p)

\* the requests or steps of CreateRepository that can fail, 0 for none
FailPoints(ty) ==
    0..(IF ty = "s3" THEN Len(S3CreateWritesOf[Demo]) ELSE Len(LocalCreateSteps))

\* the answer of one backend as the answer of the storage: [err, bucket, fs]
OfBucket(r, f) == [err |-> r.err, bucket |-> r.bucket, fs |-> f]

OfFs(r, b) == [err |-> r.err, bucket |-> b, fs |-> r.fs]

\* GitRepositoryStorage.CreateRepository: [err, bucket, fs]
StorageCreate(ty, b, f, p, failAt) ==
    IF ty = "s3"
    THEN OfBucket(S3CreateRepository(b, p, failAt), f)
    ELSE OfFs(LocalCreateRepository(f, p, failAt), b)

\* GitRepositoryStorage.DeleteRepository: [err, bucket, fs]
StorageDelete(ty, b, f, p, fails) ==
    IF ty = "s3"
    THEN OfBucket(S3DeleteRepository(b, p, fails), f)
    ELSE OfFs(LocalDeleteRepository(f, p, fails), b)

\* nothing is stored under the name
StorageAbsent(ty, b, f, p) ==
    IF ty = "s3" THEN S3Under(b, RepoKeyOf[p]) = {} ELSE FsUnder(f, FullPathOf[p]) = {}

\* a reference that was read resolves: it is a hash, or a branch that reads
\* as a hash
RefResolves(b, s, r) ==
    /\ r.err = "nil"
    /\ \/ r.ref.type = "hash"
       \/ /\ r.ref.target \in KnownRefNames
          /\ Reference(b, s, r.ref.target, FALSE).ref.type = "hash"

S3HeadResolves(b, p) ==
    RefResolves(b, StorerOf[p], Reference(b, StorerOf[p], HEAD, FALSE))

\* the repository exists with a retrievable config and a resolvable HEAD
StorageComplete(ty, b, f, p) ==
    /\ StorageExists(ty, b, f, p)
    /\ IF ty = "s3"
       THEN S3Has(b, RepoKeyOf[p] \o ConfigFile) /\ S3HeadResolves(b, p)
       ELSE /\ FullPathOf[p] \o ConfigFile \in DOMAIN f
            /\ FullPathOf[p] \o HeadFile \in DOMAIN f

\* some spelling, through some entry point, names a repository that exists
KnownAs(ty, b, f) == {p \in RepoPaths : StorageExists(ty, b, f, p)}

NoRequest ==
    [op |-> "none", via |-> "none", repoPath |-> <<>>, err |-> "nil",
     wasAbsent |-> FALSE, wasKnown |-> FALSE, created |-> {}]

InitRegistry ==
    /\ storageType \in StorageTypes
    /\ bucket = EmptyBucket
    /\ fs = EmptyBase
    /\ last = NoRequest
    /\ input = <<>>
    /\ output = <<>>
    /\ pc = "ready"
    /\ sess = <<>>

\* CreateRepository(p) returned r to an entry point
CreateReturns(via, p, r) ==
    /\ bucket' = r.bucket
    /\ fs' = r.fs
    /\ last' = [op |-> "create", via |-> via, repoPath |-> p, err |-> r.err,
                wasAbsent |-> StorageAbsent(storageType, bucket, fs, p),
                wasKnown |-> KnownAs(storageType, bucket, fs) /= {},
                created |-> IF r.err = "nil" THEN last.created \cup {p}
                            ELSE last.created]

\* an entry point answers a request for p that changes nothing
Serves(via, p, err) ==
    /\ last' = [NoRequest EXCEPT !.op = "serve", !.via = via, !.repoPath = p,
                                 !.err = err, !.created = last.created]
    /\ UNCHANGED <<bucket, fs>>

\* POST of {"name": name}: RepoController.CreateRepo
RestCreate ==
    /\ \E name \in Spellings, failAt \in FailPoints(storageType) :
         CreateReturns("rest", RestPath[name],
                       StorageCreate(storageType, bucket, fs, RestPath[name], failAt))
    /\ UNCHANGED <<input, output, pc, sess, storageType>>

\* GetTransportServer(p): 404 unless the repository exists
GetTransportServer(via, p) ==
    Serves(via, p, IF p = <<>> \/ ~StorageExists(storageType, bucket, fs, p)
                   THEN "repository not found" ELSE "nil")

\* GET of /<name>/info/refs: GitController.InfoRefs up to GetTransportServer
HttpGit ==
    /\ \E name \in Spellings : GetTransportServer("http", HttpPath[name])
    /\ UNCHANGED <<input, output, pc, sess, storageType>>

\* handleSSHSession(service, p) up to GetTransportServer; a push to a
\* repository that does not exist creates it
handleSSHSession(service, p, failAt) ==
    IF ~StorageExists(storageType, bucket, fs, p) /\ service = ReceivePack
    THEN CreateReturns("ssh", p, StorageCreate(storageType, bucket, fs, p, failAt))
    ELSE failAt = 0 /\ GetTransportServer("ssh", p)

\* an SSH exec request
SshExec ==
    /\ \E service \in Services, name \in Spellings, failAt \in FailPoints(storageType) :
         handleSSHSession(service, SshPath[service][name], failAt)
    /\ UNCHANGED <<input, output, pc, sess, storageType>>

\* DeleteRepository(p) returned r; the names that were created at the same
\* place go with it
DeleteReturns(p, r) ==
    /\ bucket' = r.bucket
    /\ fs' = r.fs
    /\ last' = [NoRequest EXCEPT
                  !.op = "delete", !.repoPath = p, !.err = r.err,
                  !.created = IF r.err /= "nil" THEN last.created
                              ELSE {q \in last.created :
                                      /\ FullPathOf[q] /= FullPathOf[p]
                                      /\ RepoKeyOf[q] /= RepoKeyOf[p]}]

RegDelete ==
    /\ \E p \in RepoPaths, fails \in BOOLEAN :
         DeleteReturns(p, StorageDelete(storageType, bucket, fs, p, fails))
    /\ UNCHANGED <<input, output, pc, sess, storageType>>

\* the repoPath of the storage handle a served request works on:
\* GetTransportServer hands it to the loader, the loader to GetStorer
HandlePath == HttpPath[Demo]

\* the commit a push brings
PushedCommit == MemoryObject("commit", <<"x">>)

PushedHash == ComputeHash(PushedCommit.type, PushedCommit.content)

HandleReferences ==
    {NewHashReference(RefsHeadsMain, CommitHash),
     NewHashReference(RefsHeadsMain, PushedHash),
     NewSymbolicReference(HEAD, RefsHeadsMain)}

\* the file of the local backend's handle for a reference or an object
HandleFile(name) == FullPathOf[HandlePath] \o <<"/">> \o name

\* the files and directories of the local handle, computed once
RefFileOf == [name \in RefNames |-> HandleFile(name)]

RefDirOf == [name \in RefNames |-> Dir(HandleFile(name))]

PushedFile == HandleFile(ObjectsDir \o HashString(PushedHash))

Handled(op) == [NoRequest EXCEPT !.op = op, !.via = "handle", !.repoPath = HandlePath,
                                 !.created = last.created]

\* SetReference through the handle
HandleSetReference ==
    /\ StorageExists(storageType, bucket, fs, HandlePath)
    /\ \E ref \in HandleReferences :
         IF storageType = "s3"
         THEN bucket' = SetReference(bucket, StorerOf[HandlePath], ref) /\ fs' = fs
         ELSE /\ fs' = FsWrite(MkdirAll(fs, RefDirOf[ref.name]).fs,
                               RefFileOf[ref.name], "file")
              /\ bucket' = bucket
    /\ last' = Handled("setReference")
    /\ UNCHANGED <<input, output, pc, sess, storageType>>

\* RemoveReference through the handle
HandleRemoveReference ==
    /\ StorageExists(storageType, bucket, fs, HandlePath)
    /\ \E name \in RefNames :
         IF storageType = "s3"
         THEN bucket' = RemoveReference(bucket, StorerOf[HandlePath], name) /\ fs' = fs
         ELSE fs' = RemoveAll(fs, RefFileOf[name]) /\ bucket' = bucket
    /\ last' = Handled("removeReference")
    /\ UNCHANGED <<input, output, pc, sess, storageType>>

\* SetEncodedObject through the handle
HandleSetObject ==
    /\ StorageExists(storageType, bucket, fs, HandlePath)
    /\ IF storageType = "s3"
       THEN /\ bucket' = SetEncodedObject(bucket, StorerOf[HandlePath], PushedCommit, FALSE).bucket
            /\ fs' = fs
       ELSE /\ fs' = FsWrite(fs, PushedFile, "file")
            /\ bucket' = bucket
    /\ last' = Handled("setObject")
    /\ UNCHANGED <<input, output, pc, sess, storageType>>

NextRegistry ==
    \/ RestCreate
    \/ HttpGit
    \/ SshExec
    \/ RegDelete
    \/ HandleSetReference
    \/ HandleRemoveReference
    \/ HandleSetObject

SpecRegistry == InitRegistry /\ [][NextRegistry]_vars

(***************************************************************************)
(* C7.  The spellings "demo", "demo.git" and "/demo/" name one storage     *)
(* location at every entry point and on both backends: once a create has   *)
(* succeeded through one spelling, the repository exists under every       *)
(* repoPath an entry point makes of a spelling, and a create through any   *)
(* spelling while one of them exists fails as already existing.            *)
(***************************************************************************)
C7_SpellingsNameOnePlace ==
    /\ (last.op = "create" /\ last.err = "nil")
         => \A p \in RepoPaths : StorageExists(storageType, bucket, fs, p)
    /\ (last.op = "create" /\ last.wasKnown)
         => last.err = "repository already exists"

(***************************************************************************)
(* C9.  After CreateRepository returns for a name that was absent, with    *)
(* success or with an error at any of its steps, the repository is fully   *)
(* absent (it does not exist and nothing is stored under its name) or it   *)
(* exists with a retrievable config and a resolvable HEAD.                 *)
(***************************************************************************)
C9_CreateAllOrNothing ==
    (last.op = "create" /\ last.wasAbsent)
    => \/ /\ ~StorageExists(storageType, bucket, fs, last.repoPath)
          /\ StorageAbsent(storageType, bucket, fs, last.repoPath)
       \/ StorageComplete(storageType, bucket, fs, last.repoPath)

(***************************************************************************)
(* C10.  A repository whose CreateRepository succeeded exists until its    *)
(* DeleteRepository succeeds, whatever object and reference operations     *)
(* are made through its storage handles.                                   *)
(***************************************************************************)
C10_ExistsUntilDeleted ==
    \A p \in last.created : StorageExists(storageType, bucket, fs, p)

(***************************************************************************)
(* C12.  CreateRepository on a name that exists fails with "repository     *)
(* already exists" and changes nothing: the bucket and the file system,    *)
(* and with them the repository's config, objects and references, are as   *)
(* before the call.                                                        *)
(***************************************************************************)
C12_ExistingCreateChangesNothing ==
    [][(last'.op = "create" /\ StorageExists(storageType, bucket, fs, last'.repoPath))
         => /\ last'.err = "repository already exists"
            /\ bucket' = bucket
            /\ fs' = fs]_vars

C12_Witness ==
    /\ last.op = "create"
    /\ last.err = "repository already exists"
    /\ storageType = "s3"
    /\ Reference(bucket, StorerOf[last.repoPath], RefsHeadsMain, FALSE).ref.hash = PushedHash

(***************************************************************************)
(* The remote backend's CreateRepository, request by request.  Two         *)
(* sessions create repositories while a reader follows references: the     *)
(* reader reads a reference in one request and what it points at in a      *)
(* later one.                                                              *)
(***************************************************************************)
\* the repoPaths RepoController.CreateRepo passes
CreatePaths == {RestPath[name] : name \in Spellings}

IdleCreate == [pc |-> "idle", repoPath |-> <<>>, n |-> 0, err |-> "nil"]

NoRead == [op |-> "none", repoPath |-> <<>>, ref |-> NilRef, found |-> TRUE]

InitCreate ==
    /\ storageType = "s3"
    /\ bucket = EmptyBucket
    /\ sess = [s \in Sessions |-> IdleCreate]
    /\ last = NoRead
    /\ fs = EmptyBase
    /\ input = <<>>
    /\ output = <<>>
    /\ pc = "ready"

\* CreateRepository(p) starts: `if s3s.RepositoryExists(repoPath)`
CreateBegin(s) ==
    /\ sess[s].pc = "idle"
    /\ \E p \in CreatePaths :
         sess' = [sess EXCEPT ![s] =
                    IF S3RepositoryExists(bucket, p)
                    THEN [pc |-> "done", repoPath |-> p, n |-> 0,
                          err |-> "repository already exists"]
                    ELSE [pc |-> "creating", repoPath |-> p, n |-> 0, err |-> "nil"]]
    /\ UNCHANGED <<bucket, last, fs, input, output, pc, storageType>>

\* the next PutObject of the call is answered, or fails and the call returns
CreateRequest(s) ==
    /\ sess[s].pc = "creating"
    /\ \E fails \in BOOLEAN :
         IF fails
         THEN /\ sess' = [sess EXCEPT ![s].pc = "done", ![s].err = "create failed"]
              /\ bucket' = bucket
         ELSE /\ bucket' = S3Put(bucket,
                                 S3CreateWritesOf[sess[s].repoPath][sess[s].n + 1].key,
                                 S3CreateWritesOf[sess[s].repoPath][sess[s].n + 1].body,
                                 S3CreateWritesOf[sess[s].repoPath][sess[s].n + 1].meta)
              /\ sess' = [sess EXCEPT
                            ![s].n = @ + 1,
                            ![s].pc = IF sess[s].n + 1 = Len(S3CreateWritesOf[sess[s].repoPath])
                                      THEN "done" ELSE "creating"]
    /\ UNCHANGED <<last, fs, input, output, pc, storageType>>

\* the caller takes the result
CreateReturn(s) ==
    /\ sess[s].pc = "done"
    /\ sess' = [sess EXCEPT ![s] = IdleCreate]
    /\ UNCHANGED <<bucket, last, fs, input, output, pc, storageType>>

\* the reader reads a reference of p: Reference(name)
ReadReference ==
    /\ \E p \in CreatePaths, name \in RefNames :
         last' = [op |-> "reference", repoPath |-> p,
                  ref |-> Reference(bucket, StorerOf[p], name, FALSE).ref,
                  found |-> TRUE]
    /\ UNCHANGED <<bucket, sess, fs, input, output, pc, storageType>>

\* the reader follows the reference it read: Reference(target) of a symbolic
\* one, EncodedObject(hash) of a direct one
ReadTarget ==
    /\ last.op = "reference"
    /\ last.ref.type /= "nil"
    /\ last' = [last EXCEPT
                  !.op = "target",
                  !.found =
                     IF last.ref.type = "symbolic"
                     THEN Reference(bucket, StorerOf[last.repoPath],
                                    last.ref.target, FALSE).err = "nil"
                     ELSE EncodedObject(bucket, StorerOf[last.repoPath], "any",
                                        last.ref.hash, FALSE).err = "nil"]
    /\ UNCHANGED <<bucket, sess, fs, input, output, pc, storageType>>

NextCreate ==
    \/ \E s \in Sessions : CreateBegin(s) \/ CreateRequest(s) \/ CreateReturn(s)
    \/ ReadReference
    \/ ReadTarget

SpecCreate == InitCreate /\ [][NextCreate]_vars

\* what is stored for a repository is closed: a reference that is read
\* points at a stored reference or object, the commit's tree and the tree's
\* blob are stored
Closed(b, s, head, main) ==
    /\ head.err = "nil" => main.err = "nil"
    /\ main.err = "nil" =>
         /\ EncodedObject(b, s, "any", main.ref.hash, FALSE).err = "nil"
         /\ EncodedObject(b, s, "any", TreeHash, FALSE).err = "nil"
         /\ EncodedObject(b, s, "any", ReadmeHash, FALSE).err = "nil"

(***************************************************************************)
(* C11.  In every state of a CreateRepository of the remote backend, a     *)
(* reference that is present points at something stored: HEAD only with    *)
(* refs/heads/main, refs/heads/main only with its commit, the commit's     *)
(* tree and the tree's blob; and a reader that follows a reference it read *)
(* finds what it points at.                                                *)
(***************************************************************************)
C11_ReferencesPointAtStored ==
    /\ \A p \in CreatePaths :
         Closed(bucket, StorerOf[p],
                Reference(bucket, StorerOf[p], HEAD, FALSE),
                Reference(bucket, StorerOf[p], RefsHeadsMain, FALSE))
    /\ last.op = "target" => last.found

C11_Witness ==
    /\ \E s \in Sessions : sess[s].pc = "creating" /\ sess[s].repoPath = HandlePath
    /\ Reference(bucket, StorerOf[HandlePath], RefsHeadsMain, FALSE).err = "nil"
    /\ Reference(bucket, StorerOf[HandlePath], HEAD, FALSE).err /= "nil"
    /\ last.op = "target" /\ last.repoPath = HandlePath /\ last.ref.type = "hash"

(***************************************************************************)
(* The remote backend's DeleteRepository, request by request: the keys     *)
(* under "<repoKey>/" are listed page by page and each page is deleted in  *)
(* one batch.  A second session holds a storage handle of the repository   *)
(* and writes through it.                                                  *)
(***************************************************************************)
\* the keys a ListObjectsV2 response holds at most (scaled down)
PageSize == 2

\* the characters of the keys in the order of their bytes
ByteOrder ==
    << ".", "/", "0", "1", "2", "3", "4", "5", "6", "7", "8", "9",
       "A", "B", "C", "D", "E", "F", "G", "H", "I", "J", "K", "L", "M",
       "N", "O", "P", "Q", "R", "S", "T", "U", "V", "W", "X", "Y", "Z",
       "a", "b", "c", "d", "e", "f", "g", "h", "i", "j", "k", "l", "m",
       "n", "o", "p", "q", "r", "s", "t", "u", "v", "w", "x", "y", "z" >>

Rank == [c \in {ByteOrder[i] : i \in DOMAIN ByteOrder} |->
           CHOOSE i \in DOMAIN ByteOrder : ByteOrder[i] = c]

\* a sorts before b, byte by byte
RECURSIVE LessFrom(_, _, _)
LessFrom(a, b, i) ==
    IF i > Len(b) THEN FALSE
    ELSE IF i > Len(a) THEN TRUE
    ELSE IF a[i] = b[i] THEN LessFrom(a, b, i + 1)
    ELSE Rank[a[i]] < Rank[b[i]]

KeyLess(a, b) == LessFrom(a, b, 1)

\* the keys a ListObjectsV2 request has yet to return
ListCandidates(b, prefix, after) ==
    {k \in DOMAIN b : HasPrefix(k, prefix) /\ KeyLess(after, k)}

FirstKeys(keys, n) ==
    {k \in keys : Cardinality({j \in keys : KeyLess(j, k)}) < n}

LastKey(keys) == CHOOSE k \in keys : \A j \in keys : j = k \/ KeyLess(j, k)

\* one page of the paginator: [keys, truncated, token]
ListPageOf(candidates, after) ==
    [keys |-> FirstKeys(candidates, PageSize),
     truncated |-> Cardinality(candidates) > PageSize,
     token |-> IF candidates = {} THEN after ELSE LastKey(FirstKeys(candidates, PageSize))]

ListObjectsV2(b, prefix, after) == ListPageOf(ListCandidates(b, prefix, after), after)

\* the common prefix of a key below "repositories/", <<>> for a key without
\* a further "/"
CommonPrefixOf(rest) ==
    IF Index(rest, "/") = 0 THEN <<>> ELSE SubSeq(rest, 1, Index(rest, "/"))

\* ListRepositories: the names of the common prefixes that end in ".git/"
S3ListRepositories(b) ==
    {TrimSuffix(CommonPrefixOf(TrimPrefix(k, RepositoriesPrefix)), <<"/">>) :
        k \in {j \in DOMAIN b :
                 /\ HasPrefix(j, RepositoriesPrefix)
                 /\ HasSuffix(CommonPrefixOf(TrimPrefix(j, RepositoriesPrefix)),
                              DotGit \o <<"/">>)}}

\* the name ListRepositories gives the repository of repoPath
ListedName(repoPath) == TrimPrefix(RepoKeyOf[repoPath], RepositoriesPrefix)

IdleDelete ==
    [pc |-> "idle", token |-> <<>>, page |-> {}, more |-> FALSE, pages |-> 0,
     err |-> "nil", exists |-> FALSE, listed |-> FALSE, written |-> FALSE]

InitDelete ==
    /\ storageType = "s3"
    /\ bucket = CreatedBucket
    /\ sess = IdleDelete
    /\ last = [open |-> FALSE]
    /\ fs = EmptyBase
    /\ input = <<>>
    /\ output = <<>>
    /\ pc = "ready"

\* DeleteRepository(HandlePath) starts: the existence check
DeleteBegin ==
    /\ sess.pc = "idle"
    /\ sess' = IF S3RepositoryExists(bucket, HandlePath)
               THEN [IdleDelete EXCEPT !.pc = "list"]
               ELSE [IdleDelete EXCEPT !.pc = "done", !.err = "repository does not exist"]
    /\ UNCHANGED <<bucket, last, fs, input, output, pc, storageType>>

\* the call returns success with the response r that ended its loop
DeleteDone(r, b) ==
    [sess EXCEPT !.pc = "done", !.err = "nil", !.page = {},
                 !.exists = S3RepositoryExists(b, HandlePath),
                 !.listed = ListedName(HandlePath) \in S3ListRepositories(b)]

\* paginator.NextPage answers r, or fails
DeleteListed(r, fails) ==
    sess' = IF fails
            THEN [sess EXCEPT !.pc = "done", !.page = {},
                              !.err = "failed to list repository objects"]
            ELSE IF r.keys = {} THEN DeleteDone(r, bucket)
            ELSE [sess EXCEPT !.pc = "delete", !.page = r.keys, !.token = r.token,
                              !.more = r.truncated, !.pages = @ + 1]

DeleteList ==
    /\ sess.pc = "list"
    /\ \E fails \in BOOLEAN :
         DeleteListed(ListObjectsV2(bucket, RepoKeyOf[HandlePath] \o <<"/">>, sess.token),
                      fails)
    /\ UNCHANGED <<bucket, last, fs, input, output, pc, storageType>>

\* DeleteObjects of the page is answered, or fails; after the last page the
\* call returns
DeleteDeleted(b, fails) ==
    /\ bucket' = b
    /\ sess' = IF fails
               THEN [sess EXCEPT !.pc = "done", !.page = {},
                                 !.err = "failed to delete repository objects"]
               ELSE IF sess.more THEN [sess EXCEPT !.pc = "list", !.page = {}]
               ELSE DeleteDone(sess, b)

DeleteBatch ==
    /\ sess.pc = "delete"
    /\ \E fails \in BOOLEAN :
         DeleteDeleted(IF fails THEN bucket
                       ELSE [k \in DOMAIN bucket \ sess.page |-> bucket[k]], fails)
    /\ UNCHANGED <<last, fs, input, output, pc, storageType>>

\* the caller takes the result
DeleteReturn ==
    /\ sess.pc = "done"
    /\ sess' = IdleDelete
    /\ UNCHANGED <<bucket, last, fs, input, output, pc, storageType>>

\* the repository is created again
DeleteRecreate ==
    /\ sess.pc = "idle"
    /\ bucket' = S3CreateRepository(bucket, HandlePath, 0).bucket
    /\ UNCHANGED <<sess, last, fs, input, output, pc, storageType>>

\* the other session's GetStorer(HandlePath)
WriterOpen ==
    /\ ~last.open
    /\ S3RepositoryExists(bucket, HandlePath)
    /\ last' = [open |-> TRUE]
    /\ UNCHANGED <<bucket, sess, fs, input, output, pc, storageType>>

\* the other session loses its handle
WriterClose ==
    /\ last.open
    /\ last' = [open |-> FALSE]
    /\ UNCHANGED <<bucket, sess, fs, input, output, pc, storageType>>

\* a write of the other session while the delete runs
Written(b) ==
    /\ bucket' = b
    /\ sess' = [sess EXCEPT !.written = TRUE]

WriterSetReference ==
    /\ last.open
    /\ sess.pc \in {"list", "delete"}
    /\ \E ref \in HandleReferences :
         Written(SetReference(bucket, StorerOf[HandlePath], ref))
    /\ UNCHANGED <<last, fs, input, output, pc, storageType>>

WriterSetObject ==
    /\ last.open
    /\ sess.pc \in {"list", "delete"}
    /\ Written(SetEncodedObject(bucket, StorerOf[HandlePath], PushedCommit, FALSE).bucket)
    /\ UNCHANGED <<last, fs, input, output, pc, storageType>>

NextDelete ==
    \/ DeleteBegin
    \/ DeleteList
    \/ DeleteBatch
    \/ DeleteReturn
    \/ DeleteRecreate
    \/ WriterOpen
    \/ WriterClose
    \/ WriterSetReference
    \/ WriterSetObject

SpecDelete == InitDelete /\ [][NextDelete]_vars

(***************************************************************************)
(* C13.  When DeleteRepository returns success, RepositoryExists of the    *)
(* name is false and ListRepositories does not hold it, however many       *)
(* pages the listing took and also when another session wrote to the       *)
(* repository while the delete ran.                                        *)
(***************************************************************************)
C13_DeletedIsGone ==
    (sess.pc = "done" /\ sess.err = "nil") => ~sess.exists /\ ~sess.listed

(***************************************************************************)
(* GetStorer, DeleteRepository and the operations of a storage handle of   *)
(* the repository "demo" on the remote backend, next to a second           *)
(* repository "o".                                                         *)
(***************************************************************************)
ScopeRepoPaths == {Demo, Other}

\* the reference names a client asks the handle to write
ScopeRefNames == {HEAD, RefsHeadsMain, RefsTagsV, EscapingName}

ScopeReferences ==
    {NewHashReference(name, h) : name \in ScopeRefNames, h \in {CommitHash, PushedHash}}

\* the keys whose presence or content differs
ChangedKeys(b, c) ==
    {k \in DOMAIN b \cup DOMAIN c : k \notin DOMAIN b \/ k \notin DOMAIN c \/ b[k] /= c[k]}

\* the result of a call on the storage or on the handle
ScopeCall(op, p, err, wasAbsent, b, c) ==
    [op |-> op, repoPath |-> p, err |-> err, wasAbsent |-> wasAbsent,
     changed |-> ChangedKeys(b, c) /= {},
     outside |-> \E k \in ChangedKeys(b, c) : ~HasPrefix(k, RepoKeyOf[p] \o <<"/">>)]

InitScope ==
    /\ storageType = "s3"
    /\ bucket = EmptyBucket
    /\ sess = [open |-> FALSE]
    /\ last = ScopeCall("none", Demo, "nil", FALSE, EmptyBucket, EmptyBucket)
    /\ fs = EmptyBase
    /\ input = <<>>
    /\ output = <<>>
    /\ pc = "ready"

ScopeReturns(op, p, err, b) ==
    /\ bucket' = b
    /\ last' = ScopeCall(op, p, err, ~S3RepositoryExists(bucket, p), bucket, b)

\* CreateRepository(p)
ScopeCreate ==
    /\ \E p \in ScopeRepoPaths :
         ScopeReturns("create", p, S3CreateRepository(bucket, p, 0).err,
                      S3CreateRepository(bucket, p, 0).bucket)
    /\ UNCHANGED <<sess, fs, input, output, pc, storageType>>

\* DeleteRepository(p)
ScopeDelete ==
    /\ \E p \in ScopeRepoPaths, fails \in BOOLEAN :
         ScopeReturns("delete", p, S3DeleteRepository(bucket, p, fails).err,
                      S3DeleteRepository(bucket, p, fails).bucket)
    /\ UNCHANGED <<sess, fs, input, output, pc, storageType>>

\* GetStorer(p): the handle of "demo" is kept
ScopeGetStorer ==
    /\ \E p \in ScopeRepoPaths :
         /\ ScopeReturns("getStorer", p,
                         IF S3RepositoryExists(bucket, p) THEN "nil"
                         ELSE "repository does not exist", bucket)
         /\ sess' = IF p = Demo /\ S3RepositoryExists(bucket, p)
                    THEN [open |-> TRUE] ELSE sess
    /\ UNCHANGED <<fs, input, output, pc, storageType>>

ScopeSetReference ==
    /\ sess.open
    /\ \E ref \in ScopeReferences :
         ScopeReturns("setReference", Demo, "nil", SetReference(bucket, DemoStorer, ref))
    /\ UNCHANGED <<sess, fs, input, output, pc, storageType>>

ScopeRemoveReference ==
    /\ sess.open
    /\ \E name \in ScopeRefNames :
         ScopeReturns("removeReference", Demo, "nil",
                      RemoveReference(bucket, DemoStorer, name))
    /\ UNCHANGED <<sess, fs, input, output, pc, storageType>>

ScopeSetObject ==
    /\ sess.open
    /\ ScopeReturns("setObject", Demo, "nil",
                    SetEncodedObject(bucket, DemoStorer, PushedCommit, FALSE).bucket)
    /\ UNCHANGED <<sess, fs, input, output, pc, storageType>>

ScopeDeleteObject ==
    /\ sess.open
    /\ ScopeReturns("deleteObject", Demo, "nil",
                    DeleteEncodedObject(bucket, DemoStorer, PushedHash))
    /\ UNCHANGED <<sess, fs, input, output, pc, storageType>>

NextScope ==
    \/ ScopeCreate
    \/ ScopeDelete
    \/ ScopeGetStorer
    \/ ScopeSetReference
    \/ ScopeRemoveReference
    \/ ScopeSetObject
    \/ ScopeDeleteObject

SpecScope == InitScope /\ [][NextScope]_vars

HandleOps == {"setReference", "removeReference", "setObject", "deleteObject"}

(***************************************************************************)
(* C14.  DeleteRepository and GetStorer of a name that does not exist fail *)
(* with "repository does not exist" and change nothing in the bucket; an   *)
(* operation of a handle that GetStorer returned changes no key outside    *)
(* "<repoKey>/" of its repository.                                         *)
(***************************************************************************)
C14_AbsentFailsHandleScoped ==
    /\ (last.op \in {"delete", "getStorer"} /\ last.wasAbsent)
         => last.err = "repository does not exist" /\ ~last.changed
    /\ last.op \in HandleOps => ~last.outside

(***************************************************************************)
(* The remaining methods of S3Storer: config, shallow, submodules and      *)
(* alternates.                                                             *)
(***************************************************************************)
\* config.Config, as far as the model follows it
DefaultConfig == [bare |-> FALSE]

Marshal(cfg) == IF cfg.bare THEN ConfigContent ELSE <<>>

Unmarshal(content) == [bare |-> content = ConfigContent]

\* Config: [err, cfg]; every error of GetObject gives the default config
Config(b, s, getFails) ==
    IF getFails \/ ~S3Has(b, s.configKey)
    THEN [err |-> "nil", cfg |-> DefaultConfig]
    ELSE [err |-> "nil", cfg |-> Unmarshal(b[s.configKey].body)]

SetConfig(b, s, cfg) == S3Put(b, s.configKey, Marshal(cfg), NoMeta)

\* the lines SetShallow writes
RECURSIVE ShallowContent(_)
ShallowContent(hashes) ==
    IF hashes = <<>> THEN <<>>
    ELSE HashString(Head(hashes)) \o <<"\n">> \o ShallowContent(Tail(hashes))

SetShallow(b, s, hashes) ==
    IF Len(hashes) = 0 THEN S3Delete(b, s.shallowKey)
    ELSE S3Put(b, s.shallowKey, ShallowContent(hashes), NoMeta)

\* the hashes of the lines that are not empty
RECURSIVE ShallowHashes(_)
ShallowHashes(lines) ==
    IF lines = <<>> THEN <<>>
    ELSE (IF Head(lines) /= <<>> THEN <<NewHash(Head(lines))>> ELSE <<>>)
         \o ShallowHashes(Tail(lines))

\* Shallow: [err, hashes]; every error of GetObject gives no hashes
Shallow(b, s, getFails) ==
    IF getFails \/ ~S3Has(b, s.shallowKey)
    THEN [err |-> "nil", hashes |-> <<>>]
    ELSE [err |-> "nil",
          hashes |-> ShallowHashes(Split(TrimSpace(b[s.shallowKey].body), "\n"))]

\* mutant: submodules are served by the storer itself
ModuleSupported(s, name) == [err |-> "nil", storer |-> s]

\* Module: [err, storer]
Module(s, name) ==
    [err |-> "submodules not supported in S3 storage", storer |-> <<>>]

\* AddAlternate: the error
AddAlternate(s, remote) == "alternates not supported in S3 storage"

(***************************************************************************)
(* One caller reads through a handle of "demo" while requests to the       *)
(* bucket may fail.                                                        *)
(***************************************************************************)
ReadRefNames == {HEAD, RefsHeadsMain}

ReadHashes == {CommitHash, PushedHash}

ShallowLists == {<<>>, <<CommitHash>>, <<CommitHash, PushedHash>>}

\* the result of a read: the request failed, what was stored, the error and
\* whether the value is the empty one of its kind
ReadCall(op, fault, stored, err, empty) ==
    [op |-> op, fault |-> fault, stored |-> stored, err |-> err, empty |-> empty]

InitRead ==
    /\ storageType = "s3"
    /\ bucket = CreatedBucket
    /\ last = ReadCall("none", FALSE, FALSE, "nil", TRUE)
    /\ sess = <<>>
    /\ fs = EmptyBase
    /\ input = <<>>
    /\ output = <<>>
    /\ pc = "ready"

ReadWrites(b) ==
    /\ bucket' = b
    /\ last' = ReadCall("write", FALSE, FALSE, "nil", TRUE)

ReadSetReference ==
    /\ \E h \in ReadHashes :
         ReadWrites(SetReference(bucket, DemoStorer, NewHashReference(RefsHeadsMain, h)))
    /\ UNCHANGED <<sess, fs, input, output, pc, storageType>>

ReadRemoveReference ==
    /\ \E name \in ReadRefNames : ReadWrites(RemoveReference(bucket, DemoStorer, name))
    /\ UNCHANGED <<sess, fs, input, output, pc, storageType>>

ReadSetObject ==
    /\ ReadWrites(SetEncodedObject(bucket, DemoStorer, PushedCommit, FALSE).bucket)
    /\ UNCHANGED <<sess, fs, input, output, pc, storageType>>

ReadSetConfig ==
    /\ \E bare \in BOOLEAN : ReadWrites(SetConfig(bucket, DemoStorer, [bare |-> bare]))
    /\ UNCHANGED <<sess, fs, input, output, pc, storageType>>

ReadSetShallow ==
    /\ \E hashes \in ShallowLists : ReadWrites(SetShallow(bucket, DemoStorer, hashes))
    /\ UNCHANGED <<sess, fs, input, output, pc, storageType>>

ReadObject ==
    /\ \E h \in ReadHashes, fault \in BOOLEAN :
         last' = ReadCall("object", fault, S3Has(bucket, DemoStorer.objectKey[h]),
                          EncodedObject(bucket, DemoStorer, "any", h, fault).err,
                          EncodedObject(bucket, DemoStorer, "any", h, fault).obj.type
                            = "invalid")
    /\ UNCHANGED <<bucket, sess, fs, input, output, pc, storageType>>

ReadRef ==
    /\ \E name \in ReadRefNames, fault \in BOOLEAN :
         last' = ReadCall("reference", fault, S3Has(bucket, DemoStorer.readKey[name]),
                          Reference(bucket, DemoStorer, name, fault).err,
                          Reference(bucket, DemoStorer, name, fault).ref = NilRef)
    /\ UNCHANGED <<bucket, sess, fs, input, output, pc, storageType>>

ReadConfig ==
    /\ \E fault \in BOOLEAN :
         last' = ReadCall("config", fault, S3Has(bucket, DemoStorer.configKey),
                          Config(bucket, DemoStorer, fault).err,
                          Config(bucket, DemoStorer, fault).cfg = DefaultConfig)
    /\ UNCHANGED <<bucket, sess, fs, input, output, pc, storageType>>

ReadShallow ==
    /\ \E fault \in BOOLEAN :
         last' = ReadCall("shallow", fault, S3Has(bucket, DemoStorer.shallowKey),
                          Shallow(bucket, DemoStorer, fault).err,
                          Shallow(bucket, DemoStorer, fault).hashes = <<>>)
    /\ UNCHANGED <<bucket, sess, fs, input, output, pc, storageType>>

ReadModule ==
    /\ last' = ReadCall("module", FALSE, FALSE, Module(DemoStorer, <<"m">>).err,
                        Module(DemoStorer, <<"m">>).storer = <<>>)
    /\ UNCHANGED <<bucket, sess, fs, input, output, pc, storageType>>

ReadAddAlternate ==
    /\ last' = ReadCall("addAlternate", FALSE, FALSE, AddAlternate(DemoStorer, <<"r">>), TRUE)
    /\ UNCHANGED <<bucket, sess, fs, input, output, pc, storageType>>

NextRead ==
    \/ ReadSetReference
    \/ ReadRemoveReference
    \/ ReadSetObject
    \/ ReadSetConfig
    \/ ReadSetShallow
    \/ ReadObject
    \/ ReadRef
    \/ ReadConfig
    \/ ReadShallow
    \/ ReadModule
    \/ ReadAddAlternate

SpecRead == InitRead /\ [][NextRead]_vars

ReadOps == {"object", "reference", "config", "shallow"}

(***************************************************************************)
(* C15.  A read of an object, a reference, the config or the shallow list  *)
(* whose request to the bucket fails returns that failure: its error is    *)
(* neither nil nor a not-found error, and no empty or default value        *)
(* stands in for what is stored.                                           *)
(***************************************************************************)
C15_BackendErrorSurfaces ==
    (last.op \in ReadOps /\ last.fault)
    => last.err \notin {"nil", "object not found", "reference not found"}

(***************************************************************************)
(* C18.  Module and AddAlternate return an error on every call and leave   *)
(* the bucket as it was.                                                   *)
(***************************************************************************)
C18_UnsupportedFailUnchanged ==
    [][last'.op \in {"module", "addAlternate"}
         => last'.err /= "nil" /\ last'.empty /\ bucket' = bucket]_vars

C18_Witness ==
    /\ last.op \in {"module", "addAlternate"}
    /\ last.err /= "nil"
    /\ S3Has(bucket, DemoStorer.shallowKey)

(***************************************************************************)
(* IterReferences of S3Storer.                                             *)
(***************************************************************************)
\* the keys in the order ListObjectsV2 returns them
RECURSIVE SortedKeys(_)
SortedKeys(keys) ==
    IF keys = {} THEN <<>>
    ELSE <<CHOOSE k \in keys : \A j \in keys : j = k \/ KeyLess(k, j)>>
         \o SortedKeys({j \in keys : \E k \in keys : KeyLess(k, j)})

\* the reference name IterReferences makes of a listed key
RefNameOfKey(s, key) ==
    TrimPrefix(SubSeq(key, Len(s.rootKey) + 1, Len(key)), <<"/">>)

\* a reference is appended when Reference returned no error
Yielded(r) == IF r.err = "nil" THEN <<r.ref>> ELSE <<>>

RECURSIVE ReadListed(_, _, _)
ReadListed(b, s, keys) ==
    IF keys = <<>> THEN <<>>
    ELSE Yielded(Reference(b, s, RefNameOfKey(s, Head(keys)), FALSE))
         \o ReadListed(b, s, Tail(keys))

\* mutant: only the branches are listed
IterReferencesBranchesOnly(b, s, listFails) ==
    IF listFails THEN [err |-> "list failed", refs |-> <<>>]
    ELSE [err |-> "nil",
          refs |-> Yielded(Reference(b, s, HEAD, FALSE))
                   \o ReadListed(b, s,
                         SortedKeys({k \in DOMAIN b :
                                       HasPrefix(k, s.refsPrefix \o <<"/", "h">>)}))]

\* IterReferences: [err, refs]
IterReferences(b, s, listFails) ==
    IF listFails THEN [err |-> "list failed", refs |-> <<>>]
    ELSE [err |-> "nil",
          refs |-> Yielded(Reference(b, s, HEAD, FALSE))
                   \o ReadListed(b, s,
                         SortedKeys({k \in DOMAIN b : HasPrefix(k, s.refsPrefix)}))]

(***************************************************************************)
(* One caller sets, removes, reads and iterates the references of "demo"   *)
(* through a handle of the remote backend.                                 *)
(***************************************************************************)
IterRefNames == {HEAD, RefsHeadsMain, RefsTagsV, RefsRemotesOriginMain, RefsNotesN}

IterReferenceValues ==
    {NewHashReference(name, h) : name \in IterRefNames, h \in {CommitHash, PushedHash}}
    \cup {NewSymbolicReference(name, RefsHeadsMain) : name \in IterRefNames}

\* what is stored before the first call: nothing but the config
NoRefsBucket == S3PutAll(EmptyBucket, S3CreateWritesOf[Demo], 1)

NoRefsCall == [op |-> "none", name |-> <<>>, err |-> "nil", ref |-> NilRef, refs |-> <<>>]

InitRefs ==
    /\ storageType = "s3"
    /\ bucket = NoRefsBucket
    /\ sess = [name \in IterRefNames |-> NilRef]
    /\ last = NoRefsCall
    /\ fs = EmptyBase
    /\ input = <<>>
    /\ output = <<>>
    /\ pc = "ready"

RefsSet ==
    /\ \E ref \in IterReferenceValues :
         /\ bucket' = SetReference(bucket, DemoStorer, ref)
         /\ sess' = [sess EXCEPT ![ref.name] = ref]
         /\ last' = [NoRefsCall EXCEPT !.op = "set"]
    /\ UNCHANGED <<fs, input, output, pc, storageType>>

RefsRemove ==
    /\ \E name \in IterRefNames :
         /\ bucket' = RemoveReference(bucket, DemoStorer, name)
         /\ sess' = [sess EXCEPT ![name] = NilRef]
         /\ last' = [NoRefsCall EXCEPT !.op = "remove"]
    /\ UNCHANGED <<fs, input, output, pc, storageType>>

\* a read returned r
RefsReturns(op, name, r) ==
    last' = [op |-> op, name |-> name, err |-> r.err, ref |-> r.ref, refs |-> r.refs]

RefsReference ==
    /\ \E name \in IterRefNames :
         RefsReturns("reference", name,
                     [refs |-> <<>>] @@ Reference(bucket, DemoStorer, name, FALSE))
    /\ UNCHANGED <<bucket, sess, fs, input, output, pc, storageType>>

RefsIter ==
    /\ \E listFails \in BOOLEAN :
         RefsReturns("iter", <<>>,
                     [ref |-> NilRef] @@ IterReferences(bucket, DemoStorer, listFails))
    /\ UNCHANGED <<bucket, sess, fs, input, output, pc, storageType>>

NextRefs ==
    \/ RefsSet
    \/ RefsRemove
    \/ RefsReference
    \/ RefsIter

SpecRefs == InitRefs /\ [][NextRefs]_vars

(***************************************************************************)
(* C16.  After any sequence of SetReference and RemoveReference calls on   *)
(* a remote handle, Reference(name) returns the reference last set for     *)
(* the name, of the kind it was set with (a hash, or the target name of a  *)
(* symbolic reference, not followed), and fails with "reference not        *)
(* found" when the name was never set or was removed last.                 *)
(***************************************************************************)
C16_ReferenceReadsLastSet ==
    last.op = "reference"
    => IF sess[last.name] = NilRef
       THEN last.err = "reference not found" /\ last.ref = NilRef
       ELSE last.err = "nil" /\ last.ref = sess[last.name]

C16_Witness ==
    /\ last.op = "reference"
    /\ last.name = HEAD
    /\ last.ref.type = "symbolic"
    /\ sess[RefsHeadsMain] = NilRef
    /\ sess[RefsTagsV].type = "hash"

\* the references under refs/ that are set
SetUnderRefs == {sess[name] : name \in {n \in IterRefNames : HasPrefix(n, RefsPrefix)}} \ {NilRef}

ConcObjects == {MemoryObject(ty, p) : ty \in {"blob", "commit"}, p \in ObjPayloads}

HashOf(obj) == ComputeHash(obj.type, obj.content)

IdleStore == [pc |-> "idle", obj |-> MemoryObject("invalid", <<>>), err |-> "nil"]

NoObjRead == [op |-> "none", want |-> MemoryObject("invalid", <<>>), err |-> "nil",
              obj |-> MemoryObject("invalid", <<>>)]

InitObjConc ==
    /\ storageType = "s3"
    /\ bucket = CreatedBucket
    /\ sess = [s \in Sessions |-> IdleStore]
    /\ last = NoObjRead
    /\ fs = EmptyBase
    /\ input = <<>>
    /\ output = <<>>
    /\ pc = "ready"

\* SetEncodedObject(obj) up to its request: the content is read and hashed
StoreBegin(s) ==
    /\ sess[s].pc = "idle"
    /\ \E obj \in ConcObjects :
         sess' = [sess EXCEPT ![s] = [pc |-> "put", obj |-> obj, err |-> "nil"]]
    /\ UNCHANGED <<bucket, last, fs, input, output, pc, storageType>>

\* the PutObject is answered or fails, and SetEncodedObject returns
StorePut(s) ==
    /\ sess[s].pc = "put"
    /\ \E putFails \in BOOLEAN :
         /\ bucket' = SetEncodedObject(bucket, DemoStorer, sess[s].obj, putFails).bucket
         /\ sess' = [sess EXCEPT
                       ![s].pc = "done",
                       ![s].err = SetEncodedObject(bucket, DemoStorer, sess[s].obj,
                                                   putFails).err]
    /\ UNCHANGED <<last, fs, input, output, pc, storageType>>

\* the session is abandoned before its request is sent
StoreAbandon(s) ==
    /\ sess[s].pc = "put"
    /\ sess' = [sess EXCEPT ![s] = IdleStore]
    /\ UNCHANGED <<bucket, last, fs, input, output, pc, storageType>>

\* the caller takes the result
StoreReturn(s) ==
    /\ sess[s].pc = "done"
    /\ sess' = [sess EXCEPT ![s] = IdleStore]
    /\ UNCHANGED <<bucket, last, fs, input, output, pc, storageType>>

\* a reader's EncodedObject(AnyObject, hash of obj)
StoreRead ==
    /\ \E obj \in ConcObjects :
         last' = [op |-> "read", want |-> obj,
                  err |-> EncodedObject(bucket, DemoStorer, "any", HashOf(obj), FALSE).err,
                  obj |-> EncodedObject(bucket, DemoStorer, "any", HashOf(obj), FALSE).obj]
    /\ UNCHANGED <<bucket, sess, fs, input, output, pc, storageType>>

NextObjConc ==
    \/ \E s \in Sessions : StoreBegin(s) \/ StorePut(s) \/ StoreAbandon(s) \/ StoreReturn(s)
    \/ StoreRead

SpecObjConc == InitObjConc /\ [][NextObjConc]_vars

(***************************************************************************)
(* C19.  While two sessions store objects, the same one included, in any   *)
(* interleaving and also when a session is abandoned, what is stored under *)
(* an object's hash is that object whole; a store that returned without    *)
(* error left its object stored; a reader finds nothing or the complete    *)
(* type and payload.                                                       *)
(***************************************************************************)
C19_StoredObjectIsWhole ==
    /\ \A obj \in ConcObjects :
         S3Has(bucket, DemoStorer.objectKey[HashOf(obj)])
         => EncodedObject(bucket, DemoStorer, "any", HashOf(obj), FALSE).obj = obj
    /\ \A s \in Sessions :
         (sess[s].pc = "done" /\ sess[s].err = "nil")
         => S3Has(bucket, DemoStorer.objectKey[HashOf(sess[s].obj)])
    /\ last.op = "read" => last.err = "object not found" \/ last.obj = last.want

C19_Witness ==
    /\ sess["s1"].pc = "done" /\ sess["s1"].err = "nil"
    /\ sess["s2"].pc = "put" /\ sess["s2"].obj = sess["s1"].obj
    /\ last.op = "read" /\ last.err = "nil" /\ last.want = sess["s1"].obj

(***************************************************************************)
(* pkg/common: WriteServiceAdvertisement.                                  *)
(***************************************************************************)
ServicePrefix == <<"#", " ", "s", "e", "r", "v", "i", "c", "e", "=">>

FlushPkt == <<"0", "0", "0", "0">>

\* "0123456789abcdef"[(n>>shift)&0xF], shift given as the power of two
HexDigitAt(n, weight) == HexDigits[((n \div weight) % 16) + 1]

\* the pkt-line length as 4 hex digits
PktHeader(n) ==
    <<HexDigitAt(n, 4096), HexDigitAt(n, 256), HexDigitAt(n, 16), HexDigitAt(n, 1)>>

\* the writes of the function in order
AdvertisementWrites(payload, n) == <<PktHeader(n), payload, FlushPkt>>

\* what the writer holds after the first k writes
RECURSIVE Sent(_, _)
Sent(writes, k) == IF k = 0 THEN <<>> ELSE Sent(writes, k - 1) \o writes[k]

\* mutant: the header counts the payload only
WriteServiceAdvertisementPayloadLength(service, failAt) ==
    [err |-> IF failAt = 0 THEN "nil" ELSE "write failed",
     out |-> Sent(AdvertisementWrites(ServicePrefix \o service \o <<"\n">>,
                                         Len(ServicePrefix \o service \o <<"\n">>)),
                     IF failAt = 0 THEN 3 ELSE failAt - 1)]

\* WriteServiceAdvertisement: [err, out]; failAt is the Write that fails, 0
\* for none
WriteServiceAdvertisement(service, failAt) ==
    [err |-> IF failAt = 0 THEN "nil" ELSE "write failed",
     out |-> Sent(AdvertisementWrites(ServicePrefix \o service \o <<"\n">>,
                                         4 + Len(ServicePrefix \o service \o <<"\n">>)),
                     IF failAt = 0 THEN 3 ELSE failAt - 1)]

MaxService == 4

\* the services asked for: the two of the protocol and short other texts
ServiceTexts == Services \cup UNION {[1..k -> {"g", "-"}] : k \in 0..MaxService}

InitAdvert ==
    /\ input \in ServiceTexts
    /\ output = <<>>
    /\ pc = "ready"
    /\ last = "nil"
    /\ bucket = <<>>
    /\ fs = <<>>
    /\ sess = <<>>
    /\ storageType = "none"

CallAdvert ==
    /\ pc = "ready"
    /\ \E failAt \in 0..3 :
         /\ output' = WriteServiceAdvertisement(input, failAt).out
         /\ last' = WriteServiceAdvertisement(input, failAt).err
    /\ pc' = "done"
    /\ UNCHANGED <<input, bucket, fs, sess, storageType>>

NextAdvert == CallAdvert

SpecAdvert == InitAdvert /\ [][NextAdvert]_vars

\* the announcement: a header of 4 lowercase hex digits that reads as
\* 4 + len("# service=" + service + "\n"), that text, and "0000"
AdvertisementFramed ==
    (pc = "done" /\ last = "nil")
    => /\ Len(output) = 4 + Len(ServicePrefix) + Len(input) + 1 + 4
       /\ \A i \in 1..4 : IsHex(output[i])
       /\ FromHex(SubSeq(output, 1, 4)) = 4 + Len(ServicePrefix) + Len(input) + 1
       /\ SubSeq(output, 5, Len(output) - 4) = ServicePrefix \o input \o <<"\n">>
       /\ SubSeq(output, Len(output) - 3, Len(output)) = FlushPkt

(***************************************************************************)
(* C20 as stated.  The announcement is framed as above, and for            *)
(* "git-upload-pack" the bytes written are                                 *)
(* "0032# service=git-upload-pack\n0000".                                  *)
(***************************************************************************)
C20_AnnouncementIs0032 ==
    /\ AdvertisementFramed
    /\ (pc = "done" /\ last = "nil" /\ input = UploadPack)
         => output = <<"0", "0", "3", "2">> \o ServicePrefix \o UploadPack \o <<"\n">>
                     \o FlushPkt

(***************************************************************************)
(* C20 amended.  The announcement is framed as above, and for              *)
(* "git-upload-pack" the bytes written are                                 *)
(* "001e# service=git-upload-pack\n0000": the length is 30 = 4 + 26.       *)
(***************************************************************************)
C20_AnnouncementIs001e ==
    /\ AdvertisementFramed
    /\ (pc = "done" /\ last = "nil" /\ input = UploadPack)
         => output = <<"0", "0", "1", "e">> \o ServicePrefix \o UploadPack \o <<"\n">>
                     \o FlushPkt

C20_Witness ==
    /\ pc = "done"
    /\ last = "nil"
    /\ input = UploadPack
    /\ Len(output) = 34

(***************************************************************************)
(* The exec command parsers of the two SSH servers.                        *)
(***************************************************************************)
WhiteSpace == {" ", "\n", "\t", "\r"}

\* strings.Fields: the words between runs of white space
RECURSIVE FieldsFrom(_, _, _)
FieldsFrom(s, i, word) ==
    IF i > Len(s) THEN (IF word = <<>> THEN <<>> ELSE <<word>>)
    ELSE IF s[i] \in WhiteSpace
    THEN (IF word = <<>> THEN <<>> ELSE <<word>>) \o FieldsFrom(s, i + 1, <<>>)
    ELSE FieldsFrom(s, i + 1, Append(word, s[i]))

Fields(s) == FieldsFrom(s, 1, <<>>)

\* GitSSHServer.extractRepoPath
extractRepoPath(arg) ==
    LET unquoted == Trim(arg, {"'", "\""})
        rel == TrimPrefix(unquoted, <<"/">>)
    IN  IF Index(rel, ":") > 0 THEN Split(rel, ":")[2] ELSE rel

\* GitSSHServer.parseGitCommand: <<service, repoPath>>
GitSSHServerParseGitCommand(command) ==
    LET parts == Fields(TrimSpace(command))
    IN  IF Len(parts) < 2 THEN <<<<>>, <<>>>>
        ELSE <<parts[1], NormalizeRepoPath(extractRepoPath(JoinWith(Tail(parts), " ")))>>

\* SSHConfig.handleSSHSession up to its repoPath: <<service, repoPath>>, no
\* service when the command or the path is refused
SSHConfigParse(command) ==
    LET parsed == parseGitCommand(command)
    IN  IF parsed[1] = <<>> \/ parsed[2] = <<>> \/ repoPathFromSSHArg(parsed[2]) = <<>>
        THEN <<<<>>, <<>>>>
        ELSE <<parsed[1], repoPathFromSSHArg(parsed[2])>>

\* the arguments of TestSSHConfig_repoPathFromSSHArg with the paths expected
RepoDotGit == <<"r", "e", "p", "o">> \o DotGit

TestedArgs ==
    << <<<<"'">> \o RepoDotGit \o <<"'">>, RepoDotGit>>,
       <<<<"\"">> \o RepoDotGit \o <<"\"">>, RepoDotGit>>,
       <<<<"'", "/">> \o RepoDotGit \o <<"'">>, RepoDotGit>>,
       <<<<"'", ":">> \o RepoDotGit \o <<"'">>, RepoDotGit>>,
       <<<<"'", "h", ":", "/", "p", "/">> \o RepoDotGit \o <<"'">>, <<"p", "/">> \o RepoDotGit>>,
       <<<<"'", "m", "y", "'">>, <<"m", "y">> \o DotGit>>,
       <<<<"'", "'">>, <<>>>> >>

\* other first words of a command
OtherCommands == {<<"l", "s">>, <<"i", "n", "v", "a", "l", "i", "d">>}

MaxPad == 1

Pad(n) == [i \in 1..n |-> " "]

\* a command line: white space, first word, white space, argument, white space
CommandLine(lead, word, arg, trail) ==
    Pad(lead) \o word \o <<" ">> \o Pad(lead) \o arg \o Pad(trail)

InitParse ==
    /\ \E lead \in 0..MaxPad, trail \in 0..MaxPad, i \in DOMAIN TestedArgs,
          word \in Services \cup OtherCommands :
         /\ input = CommandLine(lead, word, TestedArgs[i][1], trail)
         /\ last = IF word \in Services /\ TestedArgs[i][2] /= <<>>
                   THEN <<word, TestedArgs[i][2]>> ELSE <<<<>>, <<>>>>
    /\ output = <<>>
    /\ pc = "ready"
    /\ bucket = <<>>
    /\ fs = <<>>
    /\ sess = "none"
    /\ storageType = "none"

\* the command reaches the SSHConfig server
ParseSSHConfig ==
    /\ pc = "ready"
    /\ output' = SSHConfigParse(input)
    /\ sess' = "SSHConfig"
    /\ pc' = "done"
    /\ UNCHANGED <<input, last, bucket, fs, storageType>>

\* the command reaches the GitSSHServer server; handleExecRequest refuses a
\* service that is neither git-upload-pack nor git-receive-pack
ParseGitSSHServer ==
    /\ pc = "ready"
    /\ output' = IF GitSSHServerParseGitCommand(input)[1] \in Services
                 THEN GitSSHServerParseGitCommand(input) ELSE <<<<>>, <<>>>>
    /\ sess' = "GitSSHServer"
    /\ pc' = "done"
    /\ UNCHANGED <<input, last, bucket, fs, storageType>>

NextParse ==
    \/ ParseSSHConfig
    \/ ParseGitSSHServer

SpecParse == InitParse /\ [][NextParse]_vars

(***************************************************************************)
(* C30.  Both SSH servers make of a command line the service and the       *)
(* repository path the tests state: no service for a first word other      *)
(* than git-upload-pack or git-receive-pack or for an empty path, and      *)
(* otherwise the path without white space, quotes, leading colon, host     *)
(* prefix and leading slash, ending in ".git".                             *)
(***************************************************************************)
C30_ParsedAsTested ==
    pc = "done" => output = last

(***************************************************************************)
(* The git exchanges of the HTTP controller and of the two SSH servers.    *)
(* The go-git engine is a library: one run of it is the list of what its   *)
(* calls return, and a push it accepts stores one commit and moves         *)
(* refs/heads/main to it.                                                  *)
(***************************************************************************)
\* strings.Contains
Contains(s, sub) == \E i \in 0..(Len(s) - Len(sub)) : SubSeq(s, i + 1, i + Len(sub)) = sub

\* the texts of the errors of the engine's request decoders
PktLine1 == <<"p", "k", "t", "-", "l", "i", "n", "e", " ", "1", ":", " ">>

ErrEOF == PktLine1 \o <<"E", "O", "F">>

ErrMissingWant ==
    PktLine1 \o <<"m", "i", "s", "s", "i", "n", "g", " ", "'", "w", "a", "n", "t", " ", "'",
                  " ", "p", "r", "e", "f", "i", "x">>

ErrMalformed == PktLine1 \o <<"m", "a", "l", "f", "o", "r", "m", "e", "d">>

\* the texts GitSSHServer.handleUploadPack looks for
MissingWantPrefix ==
    <<"m", "i", "s", "s", "i", "n", "g", " ", "'", "w", "a", "n", "t", "'",
      " ", "p", "r", "e", "f", "i", "x">>

EOFText == <<"E", "O", "F">>

\* a run in which every call of the engine succeeds: the session opens, the
\* advertisement has references and is sent, the request decodes, the
\* operation returns no error, the response is sent
RunOk ==
    [session |-> "nil", advertise |-> "refs", advEncode |-> "nil", decode |-> <<>>,
     engine |-> "nil", encode |-> "nil"]

\* the runs of the engine: at most one call departs from RunOk; a clone of
\* a repository without commits has an empty advertisement and a client
\* that sends nothing.  engine "rejected" is ReceivePack returning a report
\* and an error, "err" an error and no report
EngineRuns ==
    {RunOk,
     [RunOk EXCEPT !.session = "err"],
     [RunOk EXCEPT !.advertise = "err"],
     [RunOk EXCEPT !.advEncode = "err"],
     [RunOk EXCEPT !.advertise = "empty", !.decode = ErrEOF],
     [RunOk EXCEPT !.decode = ErrEOF],
     [RunOk EXCEPT !.decode = ErrMissingWant],
     [RunOk EXCEPT !.decode = ErrMalformed],
     [RunOk EXCEPT !.engine = "err"],
     [RunOk EXCEPT !.engine = "rejected"],
     [RunOk EXCEPT !.encode = "err"]}

\* what an exchange came to: the HTTP status or the SSH exit code, the
\* calls made on the storage and the engine, what was written to the
\* client, whether the engine applied a push
Answer(status, calls, wrote, push) ==
    [status |-> status, calls |-> calls, wrote |-> wrote, push |-> push]

\* mutant: the repository is resolved before the service is looked at
InfoRefsResolvingFirst(service, repoPath, exists, run) ==
    IF repoPath = <<>> THEN Answer(404, <<>>, <<>>, FALSE)
    ELSE IF ~exists THEN Answer(500, <<"RepositoryExists">>, <<>>, FALSE)
    ELSE IF service \notin Services THEN Answer(400, <<"RepositoryExists">>, <<>>, FALSE)
    ELSE Answer(200, <<"RepositoryExists", "NewSession", "AdvertisedReferences">>,
                <<"advertisement">>, FALSE)

\* GitController.InfoRefs
InfoRefs(service, repoPath, exists, run) ==
    IF service \notin Services THEN Answer(400, <<>>, <<>>, FALSE)
    ELSE IF repoPath = <<>> THEN Answer(404, <<>>, <<>>, FALSE)
    ELSE IF ~exists THEN Answer(500, <<"RepositoryExists">>, <<>>, FALSE)
    ELSE IF run.session /= "nil"
    THEN Answer(500, <<"RepositoryExists", "NewSession">>, <<>>, FALSE)
    ELSE IF run.advertise = "err" \/ run.advEncode /= "nil"
    THEN Answer(500, <<"RepositoryExists", "NewSession", "AdvertisedReferences">>,
                <<>>, FALSE)
    ELSE Answer(200, <<"RepositoryExists", "NewSession", "AdvertisedReferences">>,
                <<"advertisement">>, FALSE)

\* GitController.HandleUploadPack; the error GetTransportServer returns is
\* answered by the framework with the error's own status
HandleUploadPack(repoPath, exists, run) ==
    IF repoPath = <<>> THEN Answer(404, <<>>, <<>>, FALSE)
    ELSE IF ~exists THEN Answer(404, <<"RepositoryExists">>, <<>>, FALSE)
    ELSE IF run.session /= "nil"
    THEN Answer(500, <<"RepositoryExists", "NewSession">>, <<>>, FALSE)
    ELSE IF run.decode /= <<>>
    THEN Answer(400, <<"RepositoryExists", "NewSession", "Decode">>, <<>>, FALSE)
    ELSE IF run.engine /= "nil" \/ run.encode /= "nil"
    THEN Answer(500, <<"RepositoryExists", "NewSession", "Decode", "UploadPack">>,
                <<>>, FALSE)
    ELSE Answer(200, <<"RepositoryExists", "NewSession", "Decode", "UploadPack">>,
                <<"response">>, FALSE)

\* GitController.HandleReceivePack; with an error the report is encoded
\* unchecked: Encode of a nil report dereferences it, the handler panics
\* ("panic" among the calls) and the recover middleware answers 500
HandleReceivePack(repoPath, exists, run) ==
    IF repoPath = <<>> THEN Answer(404, <<>>, <<>>, FALSE)
    ELSE IF ~exists THEN Answer(404, <<"RepositoryExists">>, <<>>, FALSE)
    ELSE IF run.session /= "nil"
    THEN Answer(500, <<"RepositoryExists", "NewSession">>, <<>>, FALSE)
    ELSE IF run.decode /= <<>>
    THEN Answer(400, <<"RepositoryExists", "NewSession", "Decode">>, <<>>, FALSE)
    ELSE IF run.engine = "err"
    THEN Answer(500, <<"RepositoryExists", "NewSession", "Decode", "ReceivePack", "panic">>,
                <<>>, FALSE)
    ELSE IF run.engine = "rejected"
    THEN Answer(200, <<"RepositoryExists", "NewSession", "Decode", "ReceivePack">>,
                <<"report">>, TRUE)
    ELSE IF run.encode /= "nil"
    THEN Answer(500, <<"RepositoryExists", "NewSession", "Decode", "ReceivePack">>,
                <<>>, TRUE)
    ELSE Answer(200, <<"RepositoryExists", "NewSession", "Decode", "ReceivePack">>,
                <<"report">>, TRUE)

\* what an SSH exec came to: the exit code the handler decided on, the
\* calls, what was written, whether a push was applied, whether
\* CreateRepository was called
SshAnswer(status, calls, wrote, push, create) ==
    [status |-> status, calls |-> calls, wrote |-> wrote, push |-> push, create |-> create]

\* GitSSHServer.handleUploadPack: status 0 for a nil error
GitSSHServerHandleUploadPack(exists, run) ==
    IF ~exists THEN SshAnswer(1, <<"RepositoryExists">>, <<>>, FALSE, FALSE)
    ELSE IF run.session /= "nil"
    THEN SshAnswer(1, <<"RepositoryExists", "NewSession">>, <<>>, FALSE, FALSE)
    ELSE IF run.advertise = "err" \/ run.advEncode /= "nil"
    THEN SshAnswer(1, <<"RepositoryExists", "NewSession", "AdvertisedReferences">>,
                   <<>>, FALSE, FALSE)
    ELSE IF run.advertise = "empty"
    THEN SshAnswer(0, <<"RepositoryExists", "NewSession", "AdvertisedReferences">>,
                   <<"advertisement">>, FALSE, FALSE)
    ELSE IF run.decode /= <<>>
    THEN SshAnswer(IF Contains(run.decode, MissingWantPrefix) \/ Contains(run.decode, EOFText)
                   THEN 0 ELSE 1,
                   <<"RepositoryExists", "NewSession", "AdvertisedReferences", "Decode">>,
                   <<"advertisement">>, FALSE, FALSE)
    ELSE IF run.engine /= "nil" \/ run.encode /= "nil"
    THEN SshAnswer(1, <<"RepositoryExists", "NewSession", "AdvertisedReferences", "Decode",
                        "UploadPack">>,
                   <<"advertisement">>, FALSE, FALSE)
    ELSE SshAnswer(0, <<"RepositoryExists", "NewSession", "AdvertisedReferences", "Decode",
                        "UploadPack">>,
                   <<"advertisement", "response">>, FALSE, FALSE)

\* mutant: the request is handed to ReceivePack whatever Decode returned
GitSSHServerHandleReceivePackUndecoded(exists, run) ==
    IF ~exists THEN SshAnswer(1, <<"RepositoryExists">>, <<>>, FALSE, FALSE)
    ELSE SshAnswer(IF run.decode /= <<>> THEN 1 ELSE 0,
                   <<"RepositoryExists", "NewSession", "AdvertisedReferences", "Decode",
                     "ReceivePack">>,
                   <<"advertisement", "report">>, TRUE, FALSE)

\* GitSSHServer.handleReceivePack: an error of ReceivePack is returned
\* before the report is looked at; an error of the report's Encode is
\* logged and dropped
GitSSHServerHandleReceivePack(exists, run) ==
    IF ~exists THEN SshAnswer(1, <<"RepositoryExists">>, <<>>, FALSE, FALSE)
    ELSE IF run.session /= "nil"
    THEN SshAnswer(1, <<"RepositoryExists", "NewSession">>, <<>>, FALSE, FALSE)
    ELSE IF run.advertise = "err" \/ run.advEncode /= "nil"
    THEN SshAnswer(1, <<"RepositoryExists", "NewSession", "AdvertisedReferences">>,
                   <<>>, FALSE, FALSE)
    ELSE IF run.decode /= <<>>
    THEN SshAnswer(1, <<"RepositoryExists", "NewSession", "AdvertisedReferences", "Decode">>,
                   <<"advertisement">>, FALSE, FALSE)
    ELSE IF run.engine /= "nil"
    THEN SshAnswer(1, <<"RepositoryExists", "NewSession", "AdvertisedReferences", "Decode",
                        "ReceivePack">>,
                   <<"advertisement">>, run.engine = "rejected", FALSE)
    ELSE SshAnswer(0, <<"RepositoryExists", "NewSession", "AdvertisedReferences", "Decode",
                        "ReceivePack">>,
                   IF run.encode /= "nil" THEN <<"advertisement">>
                   ELSE <<"advertisement", "report">>, TRUE, FALSE)

\* mutant: the channel is closed before the exit status is sent
sendExitStatusAfterClose(status) ==
    IF status = 0 THEN <<"CloseWrite", "Sleep">>
    ELSE <<"CloseWrite", "Close", "exit-status 1", "Sleep">>

\* GitSSHServer.sendExitStatusAndClose: what the server does on the channel
sendExitStatusAndClose(status) ==
    IF status = 0 THEN <<"CloseWrite", "Sleep">>
    ELSE <<"exit-status 1", "CloseWrite", "Sleep", "Close">>

\* GitSSHServer.handleExecRequest: the answer and the channel operations
handleExecRequest(command, wantReply, exists, run) ==
    LET parsed == GitSSHServerParseGitCommand(command)
        answer == IF ~wantReply \/ parsed[1] = <<>> \/ parsed[1] \notin Services
                  THEN SshAnswer(1, <<>>, <<>>, FALSE, FALSE)
                  ELSE IF parsed[1] = UploadPack
                  THEN GitSSHServerHandleUploadPack(exists, run)
                  ELSE GitSSHServerHandleReceivePack(exists, run)
    IN  [answer |-> answer,
         events |-> (IF ~wantReply THEN <<>>
                     ELSE IF parsed[1] = <<>> THEN <<"Reply false">>
                     ELSE <<"Reply true">>) \o sendExitStatusAndClose(answer.status)]

\* GitSSHServer.handleChannel on an exec request: the channel is closed
\* when the handler returns
handleChannel(command, wantReply, exists, run) ==
    LET r == handleExecRequest(command, wantReply, exists, run)
    IN  [answer |-> r.answer, events |-> Append(r.events, "Close")]

\* SSHConfig.handleUploadPack: every error of the decoder exits with 0
SSHConfigHandleUploadPack(calls, run) ==
    IF run.session /= "nil" THEN SshAnswer(1, Append(calls, "NewSession"), <<>>, FALSE, FALSE)
    ELSE IF run.advertise = "err" \/ run.advEncode /= "nil"
    THEN SshAnswer(1, calls \o <<"NewSession", "AdvertisedReferences">>, <<>>, FALSE, FALSE)
    ELSE IF run.decode /= <<>>
    THEN SshAnswer(0, calls \o <<"NewSession", "AdvertisedReferences", "Decode">>,
                   <<"advertisement">>, FALSE, FALSE)
    ELSE IF run.engine /= "nil" \/ run.encode /= "nil"
    THEN SshAnswer(1, calls \o <<"NewSession", "AdvertisedReferences", "Decode", "UploadPack">>,
                   <<"advertisement">>, FALSE, FALSE)
    ELSE SshAnswer(0, calls \o <<"NewSession", "AdvertisedReferences", "Decode", "UploadPack">>,
                   <<"advertisement", "response">>, FALSE, FALSE)

\* SSHConfig.handleReceivePack: a report that came with an error is written
SSHConfigHandleReceivePack(calls, run) ==
    IF run.session /= "nil" THEN SshAnswer(1, Append(calls, "NewSession"), <<>>, FALSE, FALSE)
    ELSE IF run.advertise = "err" \/ run.advEncode /= "nil"
    THEN SshAnswer(1, calls \o <<"NewSession", "AdvertisedReferences">>, <<>>, FALSE, FALSE)
    ELSE IF run.decode /= <<>>
    THEN SshAnswer(1, calls \o <<"NewSession", "AdvertisedReferences", "Decode">>,
                   <<"advertisement">>, FALSE, FALSE)
    ELSE IF run.engine = "err"
    THEN SshAnswer(1, calls \o <<"NewSession", "AdvertisedReferences", "Decode", "ReceivePack">>,
                   <<"advertisement">>, FALSE, FALSE)
    ELSE IF run.engine = "rejected"
    THEN SshAnswer(1, calls \o <<"NewSession", "AdvertisedReferences", "Decode", "ReceivePack">>,
                   <<"advertisement", "report">>, TRUE, FALSE)
    ELSE IF run.encode /= "nil"
    THEN SshAnswer(1, calls \o <<"NewSession", "AdvertisedReferences", "Decode", "ReceivePack">>,
                   <<"advertisement">>, TRUE, FALSE)
    ELSE SshAnswer(0, calls \o <<"NewSession", "AdvertisedReferences", "Decode", "ReceivePack">>,
                   <<"advertisement", "report">>, TRUE, FALSE)

\* SSHConfig.handleSSHSession: createErr is what CreateRepository returns
\* when it is called; Exit(code) tells the code and closes the session
SSHConfigSession(command, exists, createErr, run) ==
    LET parsed == SSHConfigParse(command)
        creates == ~exists /\ parsed[1] = ReceivePack
        calls == IF creates THEN <<"RepositoryExists", "CreateRepository", "RepositoryExists">>
                 ELSE <<"RepositoryExists", "RepositoryExists">>
        answer ==
            IF parsed[1] = <<>> THEN SshAnswer(1, <<>>, <<>>, FALSE, FALSE)
            ELSE IF creates /\ createErr /= "nil"
            THEN SshAnswer(1, <<"RepositoryExists", "CreateRepository">>, <<>>, FALSE, TRUE)
            ELSE IF ~exists /\ ~creates
            THEN SshAnswer(1, <<"RepositoryExists">>, <<>>, FALSE, FALSE)
            ELSE [(IF parsed[1] = UploadPack THEN SSHConfigHandleUploadPack(calls, run)
                   ELSE SSHConfigHandleReceivePack(calls, run))
                  EXCEPT !.create = creates]
    IN  [answer |-> answer,
         events |-> <<IF answer.status = 0 THEN "exit-status 0" ELSE "exit-status 1", "Close">>]

\* RepoController.CreateRepo: the status answered
CreateRepo(bodyParses, createErr) ==
    IF ~bodyParses THEN 400
    ELSE IF createErr /= "nil" THEN 500
    ELSE 201

\* the push the engine applies through the storage handle of p: the commit
\* is stored, refs/heads/main is moved to it
EnginePush(ty, b, f, p) ==
    IF ty = "s3"
    THEN [bucket |-> SetReference(SetEncodedObject(b, StorerOf[p], PushedCommit, FALSE).bucket,
                                  StorerOf[p], NewHashReference(RefsHeadsMain, PushedHash)),
          fs |-> f]
    ELSE [bucket |-> b,
          fs |-> FsWrite(MkdirAll(FsWrite(f, PushedFile, "file"), RefDirOf[RefsHeadsMain]).fs,
                         RefFileOf[RefsHeadsMain], "file")]

\* the names of the URLs: the repository of the handle, and none
HttpNames == {HandlePath, <<>>}

TransportHttpPath == [name \in HttpNames |-> HttpRepoPath(name)]

\* the service parameters of a reference-advertisement request
ServiceParameters ==
    Services \cup {<<>>, <<"g", "i", "t", "-", "u", "p", "l", "o", "a", "d", "-",
                           "a", "r", "c", "h", "i", "v", "e">>}

\* the exec command of git for ssh://host/<repository>
ExecCommand(word) == word \o <<" ", "'">> \o HandlePath \o <<"'">>

\* the exec commands: those of git, one of another program, one without
\* argument
ExecCommands == {ExecCommand(word) : word \in Services \cup {<<"l", "s">>}} \cup {UploadPack}

NoExchange ==
    [binding |-> "none", op |-> "none", existed |-> FALSE, status |-> 0, calls |-> <<>>,
     wrote |-> <<>>, events |-> <<>>, run |-> RunOk, changed |-> FALSE]

InitTransport ==
    /\ storageType \in StorageTypes
    /\ bucket = EmptyBucket
    /\ fs = EmptyBase
    /\ last = NoExchange
    /\ input = <<>>
    /\ output = <<>>
    /\ pc = "ready"
    /\ sess = <<>>

\* an exchange ended: request is what the client sent, after the storage
\* the exchange leaves
Exchanged(binding, op, request, existed, answer, events, run, after) ==
    /\ bucket' = after.bucket
    /\ fs' = after.fs
    /\ input' = request
    /\ last' = [binding |-> binding, op |-> op, existed |-> existed,
                status |-> answer.status, calls |-> answer.calls, wrote |-> answer.wrote,
                events |-> events, run |-> run,
                changed |-> (after.bucket /= bucket \/ after.fs /= fs)]
    /\ UNCHANGED <<output, pc, sess, storageType>>

\* the storage after an exchange on p that applied a push or not
AfterPush(p, push) ==
    IF push THEN EnginePush(storageType, bucket, fs, p) ELSE [bucket |-> bucket, fs |-> fs]

Existed(p) == p /= <<>> /\ StorageExists(storageType, bucket, fs, p)

\* GET /<name>/info/refs?service=<service>
HttpInfoRefs ==
    \E service \in ServiceParameters, name \in HttpNames, run \in EngineRuns :
        Exchanged("http", "info/refs", <<service, name>>, Existed(TransportHttpPath[name]),
                  InfoRefs(service, TransportHttpPath[name],
                           Existed(TransportHttpPath[name]), run),
                  <<>>, run, AfterPush(HandlePath, FALSE))

\* POST /<name>/git-upload-pack
HttpUploadPack ==
    \E name \in HttpNames, run \in EngineRuns :
        Exchanged("http", "upload-pack", <<UploadPack, name>>,
                  Existed(TransportHttpPath[name]),
                  HandleUploadPack(TransportHttpPath[name],
                                   Existed(TransportHttpPath[name]), run),
                  <<>>, run, AfterPush(HandlePath, FALSE))

\* POST /<name>/git-receive-pack
HttpReceived(name, run, answer) ==
    Exchanged("http", "receive-pack", <<ReceivePack, name>>,
              Existed(TransportHttpPath[name]), answer, <<>>, run,
              AfterPush(HandlePath, answer.push))

HttpReceivePack ==
    \E name \in HttpNames, run \in EngineRuns :
        HttpReceived(name, run,
                     HandleReceivePack(TransportHttpPath[name],
                                       Existed(TransportHttpPath[name]), run))

\* an exec request on a session channel of GitSSHServer
GitSshExeced(command, run, r) ==
    Exchanged("GitSSHServer", "exec", command, Existed(HandlePath), r.answer, r.events,
              run, AfterPush(HandlePath, r.answer.push))

GitSshExec ==
    \E command \in ExecCommands, wantReply \in BOOLEAN, run \in EngineRuns :
        /\ ~wantReply => run = RunOk
        /\ GitSshExeced(command, run,
                        handleChannel(command, wantReply, Existed(HandlePath), run))

\* an exec request on a session of SSHConfig
SSHConfigExeced(command, run, created, r) ==
    Exchanged("SSHConfig", "exec", command, Existed(HandlePath), r.answer, r.events, run,
              IF r.answer.push
              THEN EnginePush(storageType, created.bucket, created.fs, HandlePath)
              ELSE IF r.answer.create THEN [bucket |-> created.bucket, fs |-> created.fs]
              ELSE [bucket |-> bucket, fs |-> fs])

SSHConfigCreated(command, run, created) ==
    SSHConfigExeced(command, run, created,
                    SSHConfigSession(command, Existed(HandlePath), created.err, run))

SSHConfigExec ==
    \E command \in ExecCommands, run \in EngineRuns, failAt \in FailPoints(storageType) :
        /\ failAt /= 0 => (run = RunOk /\ ~Existed(HandlePath)
                            /\ command = ExecCommand(ReceivePack))
        /\ SSHConfigCreated(command, run,
                            StorageCreate(storageType, bucket, fs, HandlePath, failAt))

\* POST /api/repo with the name of the repository
RestCreated(bodyParses, r) ==
    Exchanged("rest", "create", HandlePath, Existed(HandlePath),
              [status |-> CreateRepo(bodyParses, r.err),
               calls |-> IF bodyParses THEN <<"CreateRepository">> ELSE <<>>,
               wrote |-> <<>>],
              <<>>, RunOk,
              IF bodyParses THEN [bucket |-> r.bucket, fs |-> r.fs]
              ELSE [bucket |-> bucket, fs |-> fs])

RestCreateRepo ==
    \E bodyParses \in BOOLEAN, failAt \in FailPoints(storageType) :
        /\ ~bodyParses => failAt = 0
        /\ RestCreated(bodyParses,
                       StorageCreate(storageType, bucket, fs, RestRepoPath(HandlePath), failAt))

NextTransport ==
    \/ HttpInfoRefs
    \/ HttpUploadPack
    \/ HttpReceivePack
    \/ GitSshExec
    \/ SSHConfigExec
    \/ RestCreateRepo

SpecTransport == InitTransport /\ [][NextTransport]_vars

\* the elements of a sequence
Elements(s) == {s[i] : i \in DOMAIN s}

\* the last exchange was a git request of the HTTP binding
HttpGitRequest ==
    /\ last.binding = "http"
    /\ last.op = "info/refs" => input[1] \in Services

(***************************************************************************)
(* C21.  A git request for a repository that does not exist is answered    *)
(* 404 on GET info/refs, POST git-upload-pack and POST git-receive-pack    *)
(* alike; the repository is not created and no engine session is opened.   *)
(***************************************************************************)
C21_MissingIs404 ==
    (HttpGitRequest /\ ~last.existed)
        => /\ last.status = 404
           /\ ~last.changed
           /\ "NewSession" \notin Elements(last.calls)

(***************************************************************************)
(* C22.  A reference-advertisement request whose service is neither        *)
(* git-upload-pack nor git-receive-pack is answered 400 before the         *)
(* repository is resolved: no call on the storage or the engine is made.   *)
(***************************************************************************)
C22_InvalidServiceIs400 ==
    (last.op = "info/refs" /\ input[1] \notin Services)
        => /\ last.status = 400
           /\ last.calls = <<>>
           /\ last.wrote = <<>>
           /\ ~last.changed

C22_Witness ==
    /\ last.op = "info/refs"
    /\ input[1] \notin Services
    /\ input[2] = HandlePath
    /\ Existed(HandlePath)
    /\ last.status = 400

\* the last exchange was an upload-pack exchange on the repository
UploadPackExchange ==
    \/ last.binding = "http" /\ last.op = "upload-pack" /\ input[2] = HandlePath
    \/ last.op = "exec" /\ input = ExecCommand(UploadPack)

\* the last exchange was a receive-pack exchange on the repository
ReceivePackExchange ==
    \/ last.binding = "http" /\ last.op = "receive-pack" /\ input[2] = HandlePath
    \/ last.op = "exec" /\ input = ExecCommand(ReceivePack)

\* the exchange ended without error: no error status over HTTP, exit code 0
\* over SSH
EndedWell == IF last.binding = "http" THEN last.status < 400 ELSE last.status = 0

(***************************************************************************)
(* C23.  An upload-pack exchange whose request does not decode because     *)
(* the client sent nothing ends as a successful no-op on both bindings:    *)
(* no error status over HTTP, success over SSH, UploadPack not invoked.    *)
(***************************************************************************)
C23_NothingRequestedIsNoOp ==
    (UploadPackExchange /\ last.existed /\ last.run.decode = ErrEOF)
        => /\ EndedWell
           /\ "UploadPack" \notin Elements(last.calls)
           /\ ~last.changed

(***************************************************************************)
(* C24.  Whenever ReceivePack produces a status report, the report is      *)
(* written to the client on both bindings, also when ReceivePack returns   *)
(* an error with it.                                                       *)
(***************************************************************************)
C24_ReportIsWritten ==
    (/\ ReceivePackExchange
     /\ "ReceivePack" \in Elements(last.calls)
     /\ last.run.engine \in {"nil", "rejected"}
     /\ last.run.encode = "nil")
        => "report" \in Elements(last.wrote)

IsTermination(e) == e \in {"exit-status 0", "exit-status 1", "CloseWrite", "Sleep", "Close"}

Termination == SelectSeq(last.events, IsTermination)

(***************************************************************************)
(* C26.  GitSSHServer ends a channel in the half-close order: after a      *)
(* successful exec it closes the write half, pauses, and only then is the  *)
(* channel closed, with no exit-status other than 0 sent; after a failed   *)
(* exec it sends exit-status 1, then closes the write half, then pauses,   *)
(* then closes the channel.                                                *)
(***************************************************************************)
C26_HalfCloseOrder ==
    last.binding = "GitSSHServer"
        => IF last.status = 0
           THEN /\ Termination = <<"CloseWrite", "Sleep", "Close">>
                /\ "exit-status 1" \notin Elements(last.events)
           ELSE SubSeq(Termination, 1, 4) = <<"exit-status 1", "CloseWrite", "Sleep", "Close">>

C26_Witness ==
    /\ last.binding = "GitSSHServer"
    /\ last.status = 1
    /\ "ReceivePack" \in Elements(last.calls)
    /\ SubSeq(Termination, 1, 4) = <<"exit-status 1", "CloseWrite", "Sleep", "Close">>

(***************************************************************************)
(* C27.  Every SSH exec ends with the client told an exit status: 0 when   *)
(* the operation succeeded, 1 on any failure.                              *)
(***************************************************************************)
C27_ExitStatusTold ==
    last.op = "exec"
        => IF last.status = 0 THEN "exit-status 0" \in Elements(last.events)
           ELSE "exit-status 1" \in Elements(last.events)

(***************************************************************************)
(* C28.  An SSH exec of git-receive-pack for a repository that does not    *)
(* exist creates the repository and runs the push against it; an SSH exec  *)
(* of git-upload-pack for a repository that does not exist ends with exit  *)
(* status 1 and creates nothing.                                           *)
(***************************************************************************)
C28_PushCreatesCloneDoesNot ==
    (last.op = "exec" /\ ~last.existed)
        => /\ input = ExecCommand(ReceivePack)
              => /\ "CreateRepository" \in Elements(last.calls)
                 /\ (last.run = RunOk /\ Existed(HandlePath))
                      => "ReceivePack" \in Elements(last.calls)
           /\ input = ExecCommand(UploadPack)
              => /\ "exit-status 1" \in Elements(last.events)
                 /\ ~last.changed

(***************************************************************************)
(* C29.  POST /api/repo answers 201 when the repository was created, 409   *)
(* when a repository of the normalized name exists already and 500 for     *)
(* any other storage error; with 409 and 500 the existing repositories     *)
(* are unchanged.                                                          *)
(***************************************************************************)
C29_CreateAnswers ==
    (last.op = "create" /\ last.calls /= <<>>)
        => /\ last.existed => (last.status = 409 /\ ~last.changed)
           /\ ~last.existed => last.status \in {201, 500}
           /\ last.status = 201 => Existed(HandlePath)

(***************************************************************************)
(* C40.  When ReceivePack returns an error and no report, the HTTP         *)
(* handler HandleReceivePack completes the response without a runtime      *)
(* fault: the missing report is not dereferenced.                          *)
(***************************************************************************)
C40_NilReportIsNotEncoded ==
    (/\ last.binding = "http"
     /\ last.op = "receive-pack"
     /\ "ReceivePack" \in Elements(last.calls)
     /\ last.run.engine = "err")
        => /\ "panic" \notin Elements(last.calls)
           /\ last.status < 500

(***************************************************************************)
(* One storage handle on the repository "demo" whose caller stores,        *)
(* deletes and looks up three objects, beside a blob that another writer   *)
(* puts under an object key with metadata of its own.                      *)
(***************************************************************************)
MetaObjects ==
    {MemoryObject("blob", <<"x">>), MemoryObject("commit", <<"x">>), MemoryObject("tree", <<>>)}

MetaHashOf == [obj \in MetaObjects |-> ComputeHash(obj.type, obj.content)]

MetaHashes == {MetaHashOf[obj] : obj \in MetaObjects}

\* the object of a hash of the caller
MetaObjectOf == [h \in MetaHashes |-> CHOOSE obj \in MetaObjects : MetaHashOf[obj] = h]

\* the key the other writer uses, and the metadata it may set: none, a
\* git-type that is no object kind, a git-type that is one
ForeignHash == ComputeHash("tag", <<"y">>)

ForeignBody == <<"y">>

ForeignMetas == {NoMeta, "note", "tag", "commit"}

MetaHints == {"any", "blob", "tree"}

NoMetaCall ==
    [op |-> "none", hash |-> ZeroHash, hint |-> "any", err |-> "nil", held |-> <<>>,
     got |-> MemoryObject("invalid", <<>>), size |-> 0]

InitObjMeta ==
    /\ bucket = CreatedBucket
    /\ sess = [h \in MetaHashes |-> "never"]
    /\ last = NoMetaCall
    /\ input = <<>>
    /\ output = <<>>
    /\ pc = "ready"
    /\ fs = <<>>
    /\ storageType = "s3"

\* SetEncodedObject(obj) returned r
MetaStored(obj, r) ==
    /\ bucket' = r.bucket
    /\ sess' = IF r.err = "nil" THEN [sess EXCEPT ![r.hash] = "stored"] ELSE sess
    /\ last' = [NoMetaCall EXCEPT !.op = "set", !.hash = r.hash, !.err = r.err]
    /\ UNCHANGED <<input, output, pc, fs, storageType>>

MetaStore ==
    \E obj \in MetaObjects, putFails \in BOOLEAN :
        MetaStored(obj, SetEncodedObject(bucket, DemoStorer, obj, putFails))

\* DeleteEncodedObject(h); a DeleteObject request that fails deletes nothing
MetaDelete ==
    \E h \in MetaHashes, fails \in BOOLEAN :
        /\ bucket' = IF fails THEN bucket ELSE DeleteEncodedObject(bucket, DemoStorer, h)
        /\ sess' = IF fails THEN sess ELSE [sess EXCEPT ![h] = "deleted"]
        /\ last' = [NoMetaCall EXCEPT !.op = "delete", !.hash = h,
                                      !.err = IF fails THEN "delete failed" ELSE "nil"]
        /\ UNCHANGED <<input, output, pc, fs, storageType>>

\* another writer puts a blob under an object key of the repository
MetaForeignPut ==
    \E meta \in ForeignMetas :
        /\ bucket' = S3Put(bucket, DemoStorer.objectKey[ForeignHash], ForeignBody, meta)
        /\ last' = [NoMetaCall EXCEPT !.op = "foreign", !.hash = ForeignHash]
        /\ UNCHANGED <<input, output, pc, fs, sess, storageType>>

\* EncodedObject(hint, h) returned r
MetaGot(h, hint, r) ==
    /\ last' = [NoMetaCall EXCEPT !.op = "get", !.hash = h, !.hint = hint, !.err = r.err,
                                  !.held = Held(bucket, h), !.got = r.obj]
    /\ UNCHANGED <<bucket, input, output, pc, fs, sess, storageType>>

MetaGet ==
    \E h \in MetaHashes \cup {ForeignHash}, hint \in MetaHints :
        MetaGot(h, hint, EncodedObject(bucket, DemoStorer, hint, h, FALSE))

\* HasEncodedObject(h)
MetaHas ==
    \E h \in MetaHashes \cup {ForeignHash} :
        /\ last' = [NoMetaCall EXCEPT !.op = "has", !.hash = h, !.held = Held(bucket, h),
                                      !.err = HasEncodedObject(bucket, DemoStorer, h, FALSE)]
        /\ UNCHANGED <<bucket, input, output, pc, fs, sess, storageType>>

\* EncodedObjectSize(h) returned r
MetaSized(h, r) ==
    /\ last' = [NoMetaCall EXCEPT !.op = "size", !.hash = h, !.held = Held(bucket, h),
                                  !.err = r.err, !.size = r.size]
    /\ UNCHANGED <<bucket, input, output, pc, fs, sess, storageType>>

MetaSize ==
    \E h \in MetaHashes \cup {ForeignHash} :
        MetaSized(h, EncodedObjectSize(bucket, DemoStorer, h, FALSE))

NextObjMeta ==
    \/ MetaStore
    \/ MetaDelete
    \/ MetaForeignPut
    \/ MetaGet
    \/ MetaHas
    \/ MetaSize

SpecObjMeta == InitObjMeta /\ [][NextObjMeta]_vars

(***************************************************************************)
(* C34.  EncodedObject(t, h) returns the type of the blob's git-type       *)
(* metadata when that names commit, tree, blob or tag, and the caller's    *)
(* type t when the metadata is absent or names anything else; the read of  *)
(* a blob that is there does not fail in either case.                      *)
(***************************************************************************)
C34_TypeFromMetadataOrHint ==
    (last.op = "get" /\ last.held /= <<>>)
        => /\ last.err = "nil"
           /\ last.got.content = last.held[1].body
           /\ last.got.type = IF last.held[1].meta \in ObjTypes THEN last.held[1].meta
                              ELSE last.hint

C34_Witness ==
    /\ last.op = "get"
    /\ last.hash = ForeignHash
    /\ last.held /= <<>>
    /\ last.held[1].meta = "note"
    /\ last.hint = "blob"
    /\ last.got.type = "blob"

(***************************************************************************)
(* C35.  After any sequence of SetEncodedObject and DeleteEncodedObject    *)
(* calls of one handle, HasEncodedObject, EncodedObjectSize and            *)
(* EncodedObject agree on every hash: all three succeed, the size being    *)
(* the payload's length, when the hash was stored last, and all three      *)
(* fail with object-not-found when it was never stored or deleted last.    *)
(***************************************************************************)
C35_LookupsAgree ==
    \A h \in MetaHashes :
        LET has == HasEncodedObject(bucket, DemoStorer, h, FALSE)
            size == EncodedObjectSize(bucket, DemoStorer, h, FALSE)
            got == EncodedObject(bucket, DemoStorer, "any", h, FALSE)
        IN  IF sess[h] = "stored"
            THEN /\ has = "nil" /\ size.err = "nil" /\ got.err = "nil"
                 /\ size.size = Len(MetaObjectOf[h].content)
                 /\ got.obj.size = size.size
            ELSE /\ has = "object not found"
                 /\ size.err = "object not found"
                 /\ got.err = "object not found"

C35_Witness ==
    /\ last.op = "size"
    /\ last.err = "nil"
    /\ last.size = 1
    /\ \E h \in MetaHashes : sess[h] = "deleted"
    /\ \E h \in MetaHashes : sess[h] = "stored"

(***************************************************************************)
(* GitSSHServer: one TCP connection from its accept to its close, with     *)
(* the channels the client opens on it and the requests it sends on them.  *)
(* handleConnection and every handleChannel run as goroutines of one       *)
(* process; a panic none of them recovers ends the process.                *)
(***************************************************************************)
Channels == {1, 2}

MaxRequests == 2

ChannelTypes == {"session", "direct-tcpip"}

RequestTypes == {"exec", "shell", "env"}

\* the payload of an exec request: a 4-byte length and the command; a
\* client may send fewer bytes
LengthPrefix == <<"0", "0", "0", "0">>

ExecPayloads ==
    {<<>>, <<"0", "0", "0">>, LengthPrefix}
        \cup {LengthPrefix \o ExecCommand(service) : service \in Services}

\* mutant: a handshake that failed is taken for one that succeeded
AfterHandshakeUnchecked(err) == "established"

\* handleConnection after ssh.NewServerConn returned: it returns, and the
\* deferred conn.Close() runs, when the handshake failed
AfterHandshake(err) == IF err THEN "closed" ELSE "established"

\* mutant: every channel is accepted
OnNewChannelAcceptAll(type, acceptFails) == IF acceptFails THEN "failed" ELSE "open"

\* handleChannel up to its request loop: a channel that is no session is
\* rejected, Accept may fail
OnNewChannel(type, acceptFails) ==
    IF type /= "session" THEN "rejected"
    ELSE IF acceptFails THEN "failed"
    ELSE "open"

\* mutant: the request loop is left after any request
AfterRequestLeaving(type) == "closed"

\* handleChannel after a request: it returns after the first exec, and the
\* deferred channel.Close() runs
AfterRequest(type) == IF type = "exec" THEN "closed" ELSE "open"

\* the reply to a request that is no exec
OtherReply(wantReply) == IF wantReply THEN "false" ELSE "none"

NoChannel == [type |-> "none", state |-> "none", log |-> <<>>]

NoEvent == [op |-> "none", channel |-> 0]

InitConn ==
    /\ pc = "serving"
    /\ sess = [state |-> "none", history |-> <<>>]
    /\ output = [c \in Channels |-> NoChannel]
    /\ last = NoEvent
    /\ storageType = "s3"
    /\ bucket \in {EmptyBucket, S3CreateRepository(EmptyBucket, HandlePath, 0).bucket}
    /\ fs = EmptyBase
    /\ input = <<>>

ConnMoves(state) == [state |-> state, history |-> Append(sess.history, state)]

\* Start: listener.Accept returned a connection, handleConnection is started
ConnAccept ==
    /\ pc = "serving"
    /\ sess.state = "none"
    /\ sess' = ConnMoves("accepted")
    /\ last' = [op |-> "accept", channel |-> 0]
    /\ UNCHANGED <<input, output, pc, bucket, fs, storageType>>

\* handleConnection calls ssh.NewServerConn
HandshakeBegin ==
    /\ pc = "serving"
    /\ sess.state = "accepted"
    /\ sess' = ConnMoves("handshaking")
    /\ last' = [op |-> "handshake", channel |-> 0]
    /\ UNCHANGED <<input, output, pc, bucket, fs, storageType>>

\* ssh.NewServerConn returns
HandshakeEnd ==
    /\ pc = "serving"
    /\ sess.state = "handshaking"
    /\ \E err \in BOOLEAN :
         /\ sess' = ConnMoves(AfterHandshake(err))
         /\ last' = [op |-> IF err THEN "handshake failed" ELSE "handshake done",
                     channel |-> 0]
    /\ UNCHANGED <<input, output, pc, bucket, fs, storageType>>

\* the channel stream yields a new channel, handleChannel is started for it
ChannelNew ==
    /\ pc = "serving"
    /\ sess.state = "established"
    /\ \E c \in Channels, type \in ChannelTypes :
         /\ output[c].state = "none"
         /\ output' = [output EXCEPT ![c] = [NoChannel EXCEPT !.type = type, !.state = "new"]]
         /\ last' = [op |-> "new channel", channel |-> c]
    /\ UNCHANGED <<input, pc, sess, bucket, fs, storageType>>

\* handleChannel rejects or accepts its channel; Accept fails on a
\* connection that is closed
ChannelDecide ==
    /\ pc = "serving"
    /\ \E c \in Channels, acceptFails \in BOOLEAN :
         /\ output[c].state = "new"
         /\ sess.state = "closed" => acceptFails
         /\ output' = [output EXCEPT ![c].state = OnNewChannel(output[c].type, acceptFails)]
         /\ last' = [op |-> "decide", channel |-> c]
    /\ UNCHANGED <<input, pc, sess, bucket, fs, storageType>>

\* a request that is no exec arrives on an accepted channel
ChannelOtherRequest ==
    /\ pc = "serving"
    /\ \E c \in Channels, type \in RequestTypes \ {"exec"}, wantReply \in BOOLEAN :
         /\ output[c].state = "open"
         /\ Len(output[c].log) < MaxRequests
         /\ output' = [output EXCEPT
                         ![c].state = AfterRequest(type),
                         ![c].log = Append(@, [type |-> type, wantReply |-> wantReply,
                                               reply |-> OtherReply(wantReply),
                                               payload |-> <<>>, events |-> <<>>,
                                               calls |-> <<>>])]
         /\ last' = [op |-> "request", channel |-> c]
    /\ UNCHANGED <<input, pc, sess, bucket, fs, storageType>>

\* handleChannel took an exec request, handleExecRequest returned r
ChannelExeced(c, wantReply, payload, r) ==
    /\ output' = [output EXCEPT
                    ![c].state = AfterRequest("exec"),
                    ![c].log = Append(@, [type |-> "exec", wantReply |-> wantReply,
                                          reply |-> IF "Reply true" \in Elements(r.events)
                                                    THEN "true"
                                                    ELSE IF "Reply false" \in Elements(r.events)
                                                    THEN "false" ELSE "none",
                                          payload |-> payload, events |-> r.events,
                                          calls |-> r.answer.calls])]
    /\ bucket' = AfterPush(HandlePath, r.answer.push).bucket
    /\ last' = [op |-> "exec", channel |-> c]
    /\ UNCHANGED <<input, pc, sess, fs, storageType>>

\* handleExecRequest slices the payload at 4 once a reply is wanted: a
\* payload of fewer bytes is a slice out of range, the goroutine panics and
\* the process ends
ChannelPanics(c, wantReply, payload) ==
    /\ pc' = "crashed"
    /\ output' = [output EXCEPT
                    ![c].log = Append(@, [type |-> "exec", wantReply |-> wantReply,
                                          reply |-> "none", payload |-> payload,
                                          events |-> <<"panic">>, calls |-> <<>>])]
    /\ last' = [op |-> "panic", channel |-> c]
    /\ UNCHANGED <<input, sess, bucket, fs, storageType>>

\* an exec request arrives on an accepted channel
ChannelExec ==
    /\ pc = "serving"
    /\ \E c \in Channels, wantReply \in BOOLEAN, payload \in ExecPayloads :
         /\ output[c].state = "open"
         /\ Len(output[c].log) < MaxRequests
         /\ IF wantReply /\ Len(payload) < 4
            THEN ChannelPanics(c, wantReply, payload)
            ELSE ChannelExeced(c, wantReply, payload,
                               handleChannel(SubSeq(payload, 5, Len(payload)), wantReply,
                                             Existed(HandlePath), RunOk))

\* the channel stream ends: handleConnection returns, the deferred
\* sshConn.Close() and conn.Close() run, the request streams of the open
\* channels end and their handlers return
ConnStreamEnds ==
    /\ pc = "serving"
    /\ sess.state = "established"
    /\ sess' = ConnMoves("closed")
    /\ output' = [c \in Channels |->
                    IF output[c].state = "open" THEN [output[c] EXCEPT !.state = "closed"]
                    ELSE output[c]]
    /\ last' = [op |-> "stream ends", channel |-> 0]
    /\ UNCHANGED <<input, pc, bucket, fs, storageType>>

NextConn ==
    \/ ConnAccept
    \/ HandshakeBegin
    \/ HandshakeEnd
    \/ ChannelNew
    \/ ChannelDecide
    \/ ChannelOtherRequest
    \/ ChannelExec
    \/ ConnStreamEnds

SpecConn == InitConn /\ [][NextConn]_vars

\* the requests handled on a channel so far
LogOf(c) == output[c].log

HasExec(c) == \E i \in DOMAIN LogOf(c) : LogOf(c)[i].type = "exec"

(***************************************************************************)
(* C31.  On an accepted session channel a request that is no exec is       *)
(* answered with a failure reply when a reply is wanted, and the channel   *)
(* stays open, so that a later exec on it is served; after the first exec  *)
(* no further request of the channel is processed.                         *)
(***************************************************************************)
C31_OnlyExecEndsChannel ==
    \A c \in Channels :
        /\ \A i \in DOMAIN LogOf(c) :
             /\ LogOf(c)[i].type /= "exec"
                  => LogOf(c)[i].reply = IF LogOf(c)[i].wantReply THEN "false" ELSE "none"
             /\ LogOf(c)[i].type = "exec" => i = Len(LogOf(c))
        /\ (pc = "serving" /\ HasExec(c)) => output[c].state = "closed"
        /\ (pc = "serving" /\ sess.state = "established" /\ LogOf(c) /= <<>> /\ ~HasExec(c))
             => output[c].state = "open"

C31_Witness ==
    \E c \in Channels :
        /\ Len(LogOf(c)) = 2
        /\ LogOf(c)[1].type = "shell" /\ LogOf(c)[1].reply = "false"
        /\ LogOf(c)[2].type = "exec" /\ LogOf(c)[2].reply = "true"
        /\ "NewSession" \in Elements(LogOf(c)[2].calls)

(***************************************************************************)
(* C32.  A new channel whose type is not "session" is rejected and never   *)
(* accepted: no request of it is processed, no storage operation is made   *)
(* for it, and rejecting it leaves the other channels and the connection   *)
(* as they are.                                                            *)
(***************************************************************************)
C32_OtherChannelTypesRejected ==
    [][\A c \in Channels :
          output'[c].type \notin {"none", "session"}
            => /\ output'[c].state \in {"new", "rejected"}
               /\ output'[c].log = <<>>
               /\ (output[c].state = "new" /\ output'[c].state = "rejected")
                    => /\ \A d \in Channels \ {c} : output'[d] = output[d]
                       /\ sess' = sess
                       /\ bucket' = bucket
                       /\ pc' = pc]_vars

C32_Witness ==
    \E c, d \in Channels :
        /\ output[c].type = "direct-tcpip"
        /\ output[c].state = "rejected"
        /\ last = [op |-> "decide", channel |-> c]
        /\ output[d].type = "session"
        /\ HasExec(d)

(***************************************************************************)
(* C33.  A connection moves through Accepted, Handshaking, Established,    *)
(* Closed in that order: no channel is accepted or handled before the      *)
(* handshake succeeded, a failed handshake leads straight to Closed, and   *)
(* the connection is closed when the channel stream of an established      *)
(* connection ends.                                                        *)
(***************************************************************************)
ConnOrder == <<"accepted", "handshaking", "established", "closed">>

C33_ConnectionOrder ==
    /\ \/ sess.history = SubSeq(ConnOrder, 1, Len(sess.history))
       \/ sess.history = <<"accepted", "handshaking", "closed">>
    /\ \A c \in Channels :
         output[c].state /= "none" => "established" \in Elements(sess.history)
    /\ last.op = "handshake failed"
         => sess.history = <<"accepted", "handshaking", "closed">>
    /\ last.op = "stream ends" => sess.state = "closed"

C33_Witness ==
    /\ sess.history = ConnOrder
    /\ last.op = "stream ends"
    /\ \E c \in Channels : HasExec(c)

(***************************************************************************)
(* C39.  handleExecRequest handles an exec request of any payload, one     *)
(* shorter than the 4-byte length prefix included, without a runtime       *)
(* fault: the channel ends with exit status 1 and the server keeps         *)
(* serving.                                                                *)
(***************************************************************************)
C39_ShortPayloadIsRefused ==
    /\ pc = "serving"
    /\ \A c \in Channels : \A i \in DOMAIN LogOf(c) :
         (LogOf(c)[i].type = "exec" /\ Len(LogOf(c)[i].payload) < 4)
            => /\ "panic" \notin Elements(LogOf(c)[i].events)
               /\ "exit-status 1" \in Elements(LogOf(c)[i].events)

(***************************************************************************)
(* ListRepositories of the two backends against RepositoryExists.          *)
(***************************************************************************)
\* filepath.Base of a path below the base directory
BaseName(p) == SubSeq(p, LastIndex(p, <<"/">>) + 1, Len(p))

\* LocalStorage.ListRepositories: the directories below the base path whose
\* name ends in ".git", relative to the base path
LocalListRepositories(f) ==
    {TrimPrefix(p, BasePath \o <<"/">>) :
        p \in {q \in DOMAIN f : f[q] = "dir" /\ HasSuffix(BaseName(q), DotGit)}}

\* GitRepositoryStorage.ListRepositories
StorageList(ty, b, f) ==
    IF ty = "s3" THEN S3ListRepositories(b) ELSE LocalListRepositories(f)

\* RepositoryExists of a name ListRepositories returned
ListedExists(ty, b, f, name) ==
    IF ty = "s3" THEN S3Has(b, getRepoKey(name) \o HeadFile)
    ELSE FsIsDir(f, getFullPath(name))

\* the name ListRepositories gives the repository of repoPath
StorageListedName(ty, repoPath) ==
    IF ty = "s3" THEN ListedName(repoPath)
    ELSE TrimPrefix(FullPathOf[repoPath], BasePath \o <<"/">>)

(***************************************************************************)
(* C36.  In every reachable state of a backend, also after a               *)
(* CreateRepository that failed part-way and after references were         *)
(* removed through a handle, every name ListRepositories returns           *)
(* satisfies RepositoryExists and every name that satisfies                *)
(* RepositoryExists is returned by ListRepositories.                       *)
(***************************************************************************)
C36_ListedIffExists ==
    /\ \A name \in StorageList(storageType, bucket, fs) :
         ListedExists(storageType, bucket, fs, name)
    /\ \A p \in RepoPaths :
         StorageExists(storageType, bucket, fs, p)
            => StorageListedName(storageType, p) \in StorageList(storageType, bucket, fs)

(***************************************************************************)
(* C37.  When two CreateRepository calls for one name run concurrently on  *)
(* a backend, at most one of them returns success, and the repository      *)
(* left behind exists with its references pointing at stored objects.      *)
(***************************************************************************)
C37_OneCreatorSucceeds ==
    \A s, u \in Sessions :
        (/\ s /= u
         /\ sess[s].pc = "done" /\ sess[u].pc = "done"
         /\ sess[s].repoPath = sess[u].repoPath)
            => /\ ~(sess[s].err = "nil" /\ sess[u].err = "nil")
               /\ (sess[s].err = "nil" \/ sess[u].err = "nil")
                    => /\ S3RepositoryExists(bucket, sess[s].repoPath)
                       /\ Closed(bucket, StorerOf[sess[s].repoPath],
                                 Reference(bucket, StorerOf[sess[s].repoPath], HEAD, FALSE),
                                 Reference(bucket, StorerOf[sess[s].repoPath],
                                           RefsHeadsMain, FALSE))

(***************************************************************************)
(* Where a repository name ends up: the names "x" and "../x" reach a       *)
(* backend through the REST API or an SSH exec command, and Create,        *)
(* Exists, Open and Delete act on the place the backend resolves them to.  *)
(* (What the HTTP framework makes of ".." in a URL is not in the source;   *)
(* the git URLs are left out.)                                             *)
(***************************************************************************)
Entries == {"rest", "SSHConfig", "GitSSHServer"}

\* the repoPath an entry point hands to the storage
EntryPath(entry, name) ==
    IF entry = "rest" THEN RestRepoPath(name)
    ELSE IF entry = "SSHConfig" THEN SshRepoPath(UploadPack, name)
    ELSE GitSSHServerParseGitCommand(UploadPack \o <<" ", "'">> \o name \o <<"'">>)[2]

EntryPathOf == [entry \in Entries |-> [name \in RootNames |-> EntryPath(entry, name)]]

\* the handle GetStorer returns for a repoPath of the remote backend
RootStorerOf == [p \in RootPaths |-> NewS3Storer(RepoKeyOf[p])]

\* the place a backend resolves a repoPath to
Location(ty, p) == IF ty = "s3" THEN RepoKeyOf[p] ELSE FullPathOf[p]

\* a key or path is inside the backend's root
InRoot(ty, k) ==
    IF ty = "s3" THEN HasPrefix(k, RepositoriesPrefix)
    ELSE HasPrefix(k, BasePath \o <<"/">>)

\* the keys and paths a call wrote, replaced or removed
Touched(b, f, after) ==
    {k \in DOMAIN b \cup DOMAIN after.bucket :
        k \notin DOMAIN b \/ k \notin DOMAIN after.bucket \/ b[k] /= after.bucket[k]}
    \cup {k \in DOMAIN f \cup DOMAIN after.fs :
            k \notin DOMAIN f \/ k \notin DOMAIN after.fs \/ f[k] /= after.fs[k]}

NoRootCall ==
    [op |-> "none", entry |-> "none", repoPath |-> <<>>, location |-> <<>>, touched |-> {},
     err |-> "nil"]

InitRoot ==
    /\ storageType \in StorageTypes
    /\ bucket = EmptyBucket
    /\ fs = EmptyBase
    /\ last = NoRootCall
    /\ input = <<>>
    /\ output = <<>>
    /\ pc = "ready"
    /\ sess = <<>>

\* a call on p returned r: [err, bucket, fs]
RootReturns(op, entry, name, p, r) ==
    /\ bucket' = r.bucket
    /\ fs' = r.fs
    /\ input' = name
    /\ last' = [op |-> op, entry |-> entry, repoPath |-> p,
                location |-> Location(storageType, p),
                touched |-> Touched(bucket, fs, r), err |-> r.err]
    /\ UNCHANGED <<output, pc, sess, storageType>>

\* CreateRepository of the name
RootCreate ==
    \E entry \in Entries, name \in RootNames, failAt \in FailPoints(storageType) :
        RootReturns("create", entry, name, EntryPathOf[entry][name],
                    StorageCreate(storageType, bucket, fs, EntryPathOf[entry][name], failAt))

\* RepositoryExists of the name
RootExists ==
    \E entry \in Entries, name \in RootNames :
        RootReturns("exists", entry, name, EntryPathOf[entry][name],
                    [err |-> IF StorageExists(storageType, bucket, fs,
                                              EntryPathOf[entry][name])
                             THEN "nil" ELSE "repository does not exist",
                     bucket |-> bucket, fs |-> fs])

\* the handle of p moves refs/heads/main
RootPush(p) ==
    IF storageType = "s3"
    THEN [err |-> "nil", fs |-> fs,
          bucket |-> SetReference(bucket, RootStorerOf[p],
                                  NewHashReference(RefsHeadsMain, PushedHash))]
    ELSE [err |-> "nil", bucket |-> bucket,
          fs |-> FsWrite(fs, FullPathOf[p] \o <<"/">> \o RefsHeadsMain, "file")]

\* GetStorer of the name, and a reference written through the handle
RootOpen ==
    \E entry \in Entries, name \in RootNames :
        /\ StorageExists(storageType, bucket, fs, EntryPathOf[entry][name])
        /\ RootReturns("open", entry, name, EntryPathOf[entry][name],
                       RootPush(EntryPathOf[entry][name]))

\* DeleteRepository of the name
RootDelete ==
    \E entry \in Entries, name \in RootNames, fails \in BOOLEAN :
        RootReturns("delete", entry, name, EntryPathOf[entry][name],
                    StorageDelete(storageType, bucket, fs, EntryPathOf[entry][name], fails))

NextRoot ==
    \/ RootCreate
    \/ RootExists
    \/ RootOpen
    \/ RootDelete

SpecRoot == InitRoot /\ [][NextRoot]_vars

(***************************************************************************)
(* C38.  Every repository name that reaches a backend is resolved to a     *)
(* directory inside the base path (local) or to a key prefix under         *)
(* repositories/ (remote); a name with ".." segments never makes Create,   *)
(* Exists, Open or Delete act on a place outside that root.                *)
(***************************************************************************)
C38_NamesStayInRoot ==
    last.op /= "none"
        => /\ InRoot(storageType, last.location)
           /\ \A k \in last.touched : InRoot(storageType, k) \/ k = BasePath

=============================================================================
